---- MODULE Spec2Model ----
(***************************************************************************)
(* Product-name resolution and price matching: the national-average edge   *)
(* function (tiered handler), the smart-price-lookup edge function, the    *)
(* resolve_query RPC and the price_lookup / chain_prices / price_cache     *)
(* tables they read and write.                                             *)
(*                                                                         *)
(* Text is a sequence of one-character strings.  Hebrew words are written  *)
(* letter for letter in Latin letters of the same length ("hlb" is the     *)
(* three-letter word for milk, "qoqos" the five-letter word for coconut),  *)
(* so every length the scores depend on is the length in the source.       *)
(* Times are in days.  Confidences are in hundredths (55 is 0.55), prices  *)
(* in whole shekels.                                                       *)
(***************************************************************************)
EXTENDS Integers, Sequences, FiniteSets, TLC

\* ------------------------------------------------------------------ bounds
MaxTicks == 2
MaxResolves == 2
MaxImports == 2
MaxFaults == 1
MaxItems == 3
MaxText == 3
MaxAdds == 2
MaxActions == 2
MaxSyncs == 3

\* ------------------------------------------------------- program constants
TTL_DAYS == 30
AI_FLOOR == 55
WEB_FLOOR == 50
DEFAULT_WEB_CONFIDENCE == 70
MAX_QUERY_LENGTH == 200

\* ------------------------------------------------------------ null values
\* SQL NULL / JS null or undefined for a text column or field
NULL == <<"NULL">>
\* SQL NULL / JS null for a numeric column or field
NullNum == 0 - 1
\* JS undefined in a numeric field: the field is missing; a comparison with it
\* is false and JSON.stringify leaves it out
Undefined == 0 - 2
\* a JSON value in a numeric field that is not a number: every comparison of
\* it with a number is false
NotANumber == 0 - 3

\* ------------------------------------------------------------------- text
WhiteSpace == {" ", "TAB"}
\* the characters of /[״"'`]/, by name
QuoteChars == {"APOS", "DQUOTE", "BACKTICK", "GERSHAYIM"}
DashChars == {"-", "ENDASH", "EMDASH"}
ControlChars == {"TAB"}

\* String.prototype.toLowerCase on one character
LowerChar(c) ==
  CASE c = "H" -> "h"
    [] c = "L" -> "l"
    [] c = "B" -> "b"
    [] OTHER -> c

ToLower(s) == [i \in 1..Len(s) |-> LowerChar(s[i])]

RECURSIVE TrimLeft(_)
TrimLeft(s) ==
  IF s = <<>> THEN <<>>
  ELSE IF Head(s) \in WhiteSpace THEN TrimLeft(Tail(s)) ELSE s

RECURSIVE TrimRight(_)
TrimRight(s) ==
  IF s = <<>> THEN <<>>
  ELSE IF s[Len(s)] \in WhiteSpace THEN TrimRight(SubSeq(s, 1, Len(s) - 1)) ELSE s

\* String.prototype.trim
Trim(s) == TrimRight(TrimLeft(s))

\* s.replace(/[chars]/g, empty string)
RECURSIVE RemoveChars(_, _)
RemoveChars(s, chars) ==
  IF s = <<>> THEN <<>>
  ELSE IF Head(s) \in chars THEN RemoveChars(Tail(s), chars)
  ELSE <<Head(s)>> \o RemoveChars(Tail(s), chars)

\* s.replace(/[chars]/g, one space)
ReplaceBySpace(s, chars) == [i \in 1..Len(s) |-> IF s[i] \in chars THEN " " ELSE s[i]]

\* s.replace(/\s+/g, one space)
RECURSIVE CollapseSpaces(_)
CollapseSpaces(s) ==
  IF s = <<>> THEN <<>>
  ELSE IF Head(s) \in WhiteSpace
       THEN <<" ">> \o CollapseSpaces(TrimLeft(s))
       ELSE <<Head(s)>> \o CollapseSpaces(Tail(s))

\* a normalization that leaves out the last trim
normalizeTextUntrimmed(text) ==
  CollapseSpaces(ReplaceBySpace(RemoveChars(ToLower(Trim(text)), QuoteChars), DashChars))

\* the server's normalization: trim, toLowerCase, the quotes removed, the
\* dashes replaced by a space, runs of white space collapsed, trim
normalizeText(text) ==
  Trim(CollapseSpaces(ReplaceBySpace(RemoveChars(ToLower(Trim(text)), QuoteChars), DashChars)))

\* the client's normalization, the same chain of calls
normalizeQuery(query) ==
  Trim(CollapseSpaces(ReplaceBySpace(RemoveChars(ToLower(Trim(query)), QuoteChars), DashChars)))

\* validateQuery: the sanitized query, or NULL when the query is rejected
validateQuery(query) ==
  LET trimmed == Trim(query) IN
  IF query = NULL \/ Len(trimmed) = 0 THEN NULL
  ELSE IF Len(trimmed) > MAX_QUERY_LENGTH THEN NULL
  ELSE RemoveChars(trimmed, ControlChars)

\* String.prototype.includes: sub occurs in s
includes(s, sub) ==
  \E i \in 0..(Len(s) - Len(sub)) : SubSeq(s, i + 1, i + Len(sub)) = sub

\* s.split(one space).filter(w => w.length > 0)
RECURSIVE SplitWords(_, _)
SplitWords(s, cur) ==
  IF s = <<>> THEN (IF cur = <<>> THEN <<>> ELSE <<cur>>)
  ELSE IF Head(s) = " "
       THEN (IF cur = <<>> THEN <<>> ELSE <<cur>>) \o SplitWords(Tail(s), <<>>)
       ELSE SplitWords(Tail(s), Append(cur, Head(s)))

Words(s) == SplitWords(s, <<>>)

\* SQL ILIKE as PostgREST evaluates .ilike(column, pattern): case-insensitive,
\* "%" (and PostgREST's "*") match any run of characters, "_" any one character
RECURSIVE LikeMatch(_, _)
LikeMatch(s, p) ==
  IF p = <<>> THEN s = <<>>
  ELSE IF Head(p) \in {"%", "*"}
       THEN LikeMatch(s, Tail(p)) \/ (s # <<>> /\ LikeMatch(Tail(s), p))
  ELSE IF Head(p) = "_"
       THEN s # <<>> /\ LikeMatch(Tail(s), Tail(p))
  ELSE s # <<>> /\ LowerChar(Head(s)) = LowerChar(Head(p)) /\ LikeMatch(Tail(s), Tail(p))

ilike(value, pattern) == LikeMatch(value, pattern)

\* ------------------------------------------------------ fuzzy match scores
\* A score is the fraction <<n, d>> = n/d.  The source computes in doubles;
\* for the small integers involved equal fractions give equal doubles and
\* unequal fractions differ by far more than a rounding error, so comparing
\* fractions is comparing the doubles.  d = 0 is the Infinity of 40 / 0.
ScorePositive(x) == x[1] > 0

\* b.score - a.score < 0, the comparator's "a before b"
ScoreGreater(x, y) ==
  IF x[2] = 0 THEN y[2] # 0
  ELSE IF y[2] = 0 THEN FALSE
  ELSE x[1] * y[2] > y[1] * x[2]

\* queryWords.filter(qw => keyWords.some(kw => kw.includes(qw) || qw.includes(kw)))
matchingWords(queryWords, keyWords) ==
  {i \in 1..Len(queryWords) :
     \E j \in 1..Len(keyWords) :
        includes(keyWords[j], queryWords[i]) \/ includes(queryWords[i], keyWords[j])}

\* a scoring that gives every key that contains the query the same score
ScoreFlat(normalized, canonical_key) ==
  LET key == normalizeText(canonical_key)
      queryWords == Words(normalized)
      keyWords == Words(key)
      n == Cardinality(matchingWords(queryWords, keyWords))
  IN  IF key = normalized THEN <<1000, 1>>
      ELSE IF includes(key, normalized) THEN <<100, 1>>
      ELSE IF includes(normalized, key) THEN <<80 * Len(key) + 40, Len(key)>>
      ELSE IF n > 0 THEN <<60 * n, Len(queryWords)>>
      ELSE <<0, 1>>

\* a scoring with the constants of the two containment rules exchanged
ScoreSwapped(normalized, canonical_key) ==
  LET key == normalizeText(canonical_key)
      queryWords == Words(normalized)
      keyWords == Words(key)
      n == Cardinality(matchingWords(queryWords, keyWords))
  IN  IF key = normalized THEN <<1000, 1>>
      ELSE IF includes(key, normalized) THEN <<80 * Len(key) + 40, Len(key)>>
      ELSE IF includes(normalized, key) THEN <<100 * Len(key) + 50, Len(key)>>
      ELSE IF n > 0 THEN <<60 * n, Len(queryWords)>>
      ELSE <<0, 1>>

\* a scoring whose word rule can reach 130
ScoreWordsHigh(normalized, canonical_key) ==
  LET key == normalizeText(canonical_key)
      queryWords == Words(normalized)
      keyWords == Words(key)
      n == Cardinality(matchingWords(queryWords, keyWords))
  IN  IF key = normalized THEN <<1000, 1>>
      ELSE IF includes(key, normalized) THEN <<100 * Len(key) + 50, Len(key)>>
      ELSE IF includes(normalized, key) THEN <<80 * Len(key) + 40, Len(key)>>
      ELSE IF n > 0 THEN <<130 * n, Len(queryWords)>>
      ELSE <<0, 1>>

\* the score findDirectMatch gives one price_lookup row for a normalized query
Score(normalized, canonical_key) ==
  LET key == normalizeText(canonical_key)
      queryWords == Words(normalized)
      keyWords == Words(key)
      n == Cardinality(matchingWords(queryWords, keyWords))
  IN  IF key = normalized THEN <<1000, 1>>
      ELSE IF includes(key, normalized) THEN <<100 * Len(key) + 50, Len(key)>>
      ELSE IF includes(normalized, key) THEN <<80 * Len(key) + 40, Len(key)>>
      ELSE IF n > 0 THEN <<60 * n, Len(queryWords)>>
      ELSE <<0, 1>>

\* the rows of a table in one order
RECURSIVE SomeOrder(_)
SomeOrder(keys) ==
  IF keys = {} THEN <<>>
  ELSE LET k == CHOOSE x \in keys : TRUE IN <<k>> \o SomeOrder(keys \ {k})

\* The orders in which an unordered SELECT can return the rows of a table.
\* Only the first row of equal score matters to the caller, so one order per
\* possible first row stands for all the orders that begin with it.
Orderings(keys) ==
  IF keys = {} THEN {<<>>}
  ELSE {<<k>> \o SomeOrder(keys \ {k}) : k \in keys}

\* the best item as a sort that is not stable can leave it: the last of equal
\* scores
BestMatchLast(normalized, allItems) ==
  LET pos == {i \in DOMAIN allItems : ScorePositive(Score(normalized, allItems[i]))}
      best == {i \in pos : \A j \in pos : ~ScoreGreater(Score(normalized, allItems[j]),
                                                         Score(normalized, allItems[i]))}
  IN  IF pos = {} THEN NULL
      ELSE allItems[CHOOSE i \in best : \A j \in best : i >= j]

\* scoredItems.filter(score > 0).sort((a, b) => b.score - a.score)[0] for the
\* rows in the order allItems: the stable sort keeps the first of equal scores
BestMatch(normalized, allItems) ==
  LET pos == {i \in DOMAIN allItems : ScorePositive(Score(normalized, allItems[i]))}
      best == {i \in pos : \A j \in pos : ~ScoreGreater(Score(normalized, allItems[j]),
                                                         Score(normalized, allItems[i]))}
  IN  IF pos = {} THEN NULL
      ELSE allItems[CHOOSE i \in best : \A j \in best : i <= j]

\* the rows the exact-match query of findDirectMatch can return
ExactMatches(lookup, normalized) == {k \in DOMAIN lookup : ilike(k, normalized)}

\* ------------------------------------------------------------ input values
hlb == <<"h", "l", "b">>
qoqos == <<"q", "o", "q", "o", "s">>
zit == <<"z", "i", "t">>

Q_COCONUT_MILK == hlb \o <<" ">> \o qoqos
Q_MILK_3 == hlb \o <<" ", "3", "%">>
Q_OLIVE == zit \o <<"APOS">>

\* the query parameter of a request
Queries == {Q_COCONUT_MILK, Q_MILK_3, Q_OLIVE}

K_MILK == hlb
K_MILK_3 == hlb \o <<" ", "3", "%">>
K_MILK_3_W == hlb \o <<" ", "3", "%", " ", "w">>
K_OLIVE == zit
K_UNKNOWN == <<"x", "x">>

\* the canonical keys the price imports bring
ImportKeys == {K_MILK, K_MILK_3, K_MILK_3_W, K_OLIVE}
ImportPrices == {7}

\* what the language model can answer to matchWithAI, after parsing; NULL is
\* every path of matchWithAI that returns null
AiConfidences == {AI_FLOOR - 1, AI_FLOOR}
AiAnswers ==
  {<<>>} \cup {<<[canonicalKey |-> K_MILK, confidence |-> c]>> : c \in AiConfidences}
         \cup {<<[canonicalKey |-> K_UNKNOWN, confidence |-> AI_FLOOR]>>}

Chains == {"shufersal"}

\* the record the language model can extract from the search results
PriceDataSet ==
  { [found |-> FALSE, canonicalName |-> NULL, avgPrice |-> NullNum,
     confidence |-> 0, chainPrices |-> {}],
    [found |-> TRUE, canonicalName |-> K_OLIVE, avgPrice |-> 9,
     confidence |-> 49, chainPrices |-> {}],
    [found |-> TRUE, canonicalName |-> K_OLIVE, avgPrice |-> 9,
     confidence |-> 70, chainPrices |-> {<<"shufersal", 9>>}],
    [found |-> TRUE, canonicalName |-> K_OLIVE, avgPrice |-> 9,
     confidence |-> Undefined, chainPrices |-> {}] }

\* ------------------------------------------------------------------ state
VARIABLES
  now,            \* the clock, in days
  price_lookup,   \* table price_lookup: canonical_key -> row
  chain_prices,   \* table chain_prices: <<canonical_key, chain_name>> -> price_ils
  price_cache,    \* table price_cache: query -> row
  pc,             \* where the request in progress stands
  op,             \* the operation requested: "national-average" or "resolve_query"
  query,          \* the sanitized query of the request in progress
  normalizedQuery, \* normalizeText(query)
  cached,         \* the row the cache read returned, <<>> for none
  directMatch,    \* the row findDirectMatch returned, <<>> for null
  aiMatch,        \* what matchWithAI returned, <<>> for null
  faults,         \* the steps of this request that failed: store calls and service calls
  matchedPrice,   \* the price_lookup row of the AI-matched key, <<>> before
  priceData,      \* smart-price-lookup: the extracted record, <<>> before
  smartData,      \* the smart-price-lookup response as national-average sees it
  response,       \* the response of the last finished request, <<>> before
  calls,          \* the tiers this request invoked, in order, with their outcome
  cacheReadAt,    \* when the cache row an answer came from was read, NullNum for none
  atStart,        \* what price_lookup held for the query when the request began
  resolves,       \* requests started so far
  imports,        \* rows imported so far
  fn              \* a function, or the client's list, running on its own

vars == <<now, price_lookup, chain_prices, price_cache, pc, op, query, normalizedQuery, cached,
          directMatch, aiMatch, faults, matchedPrice, priceData, smartData, response, calls,
          cacheReadAt, atStart, resolves, imports, fn>>

store == <<price_lookup, chain_prices, price_cache>>
locals == <<op, query, normalizedQuery, cached, directMatch, aiMatch, faults, matchedPrice, priceData, smartData,
            calls, cacheReadAt, atStart>>

\* no function is being called on its own
NoCall == [name |-> "none"]

NoSmartData == [ok |-> FALSE, found |-> FALSE, canonicalName |-> NULL,
                avgPrice |-> NullNum, confidence |-> NullNum]

\* the tables as created, no request in progress
InitProgram ==
  /\ now = 0
  /\ price_lookup = <<>>
  /\ chain_prices = <<>>
  /\ price_cache = <<>>
  /\ pc = "idle"
  /\ op = "none"
  /\ query = NULL
  /\ normalizedQuery = NULL
  /\ cached = <<>>
  /\ directMatch = <<>>
  /\ aiMatch = <<>>
  /\ faults = {}
  /\ matchedPrice = <<>>
  /\ priceData = <<>>
  /\ smartData = NoSmartData
  /\ response = <<>>
  /\ calls = <<>>
  /\ cacheReadAt = NullNum
  /\ atStart = [exact |-> {}, match |-> FALSE]
  /\ resolves = 0
  /\ imports = 0

Init == InitProgram /\ fn = NoCall

\* ----------------------------------------------------------- table writes
\* f with the value v at x, x added to the domain when it is new
Put(f, x, v) == [y \in (DOMAIN f) \cup {x} |-> IF y = x THEN v ELSE f[y]]

\* price_cache.upsert({query, canonical_key, avg_price_ils, confidence,
\* sample_count}, {onConflict: 'query'}) at time t: a new row takes the column
\* defaults cached_at = now(), expires_at = now() + 30 days; on a conflict only
\* the columns of the payload are set
CacheUpsert(cache, q, key, avg, conf, cnt, t) ==
  IF q \in DOMAIN cache
  THEN Put(cache, q, [cache[q] EXCEPT !.canonical_key = key, !.avg_price_ils = avg,
                                      !.confidence = conf, !.sample_count = cnt])
  ELSE Put(cache, q, [canonical_key |-> key, avg_price_ils |-> avg, confidence |-> conf,
                      sample_count |-> cnt, cached_at |-> t, expires_at |-> t + TTL_DAYS])

\* price_cache.update({canonical_key, avg_price_ils, sample_count, confidence,
\* cached_at}).eq('query', q) at time t
CacheUpdate(cache, q, key, avg, conf, cnt, t) ==
  IF q \in DOMAIN cache
  THEN Put(cache, q, [cache[q] EXCEPT !.canonical_key = key, !.avg_price_ils = avg,
                                      !.confidence = conf, !.sample_count = cnt,
                                      !.cached_at = t])
  ELSE cache

\* price_lookup.upsert({canonical_key, avg_price_ils, sample_count}, {onConflict: 'canonical_key'})
LookupUpsert(lookup, key, avg, cnt) ==
  Put(lookup, key, [avg_price_ils |-> avg, sample_count |-> cnt])

\* .select('canonical_key, avg_price_ils, sample_count') of one price_lookup row
SelectRow(lookup, k) ==
  [canonical_key |-> k, avg_price_ils |-> lookup[k].avg_price_ils,
   sample_count |-> lookup[k].sample_count]

\* fetchChainPricesForKeys: the chain_prices rows of the keys
fetchChainPricesForKeys(canonicalKeys) ==
  {e \in DOMAIN chain_prices : e[1] \in canonicalKeys}

\* the cache read: .eq('query', q).gt('expires_at', now).limit(1).single()
CacheRead(cache, q, t) ==
  IF q \in DOMAIN cache /\ cache[q].expires_at > t THEN <<cache[q]>> ELSE <<>>

\* x ? parseFloat(x) : null on a numeric column
ParseOrNull(x) == IF x = NullNum \/ x = 0 THEN NullNum ELSE x

\* the canonical keys equal to the normalized query but for letter case
EqualKeys(lookup, normalized) == {k \in DOMAIN lookup : ToLower(k) = normalized}

\* the canonical keys findDirectMatch can return for the normalized query
MatchingKeys(lookup, normalized) ==
  {k \in DOMAIN lookup : ilike(k, normalized) \/ ScorePositive(Score(normalized, k))}

\* --------------------------------------------------------------- responses
Resp(key, avg, conf, isCached, src) ==
  <<[status |-> 200, canonicalKey |-> key, avgPriceIls |-> avg, confidence |-> conf,
     cached |-> isCached, source |-> src]>>

\* { query, avgPriceIls: null }
NotFound == Resp(NULL, NullNum, NullNum, FALSE, "none")

Log(tier, hit) == Append(calls, [tier |-> tier, hit |-> hit])

\* ------------------------------------------- national-average: the handler
\* a request arrives: validateQuery, then normalizeText
Start(q) ==
  /\ pc \in {"idle", "done"}
  /\ resolves < MaxResolves
  /\ validateQuery(q) # NULL
  /\ resolves' = resolves + 1
  /\ op' = "national-average"
  /\ query' = validateQuery(q)
  /\ normalizedQuery' = normalizeText(validateQuery(q))
  /\ pc' = "cache"
  /\ cached' = <<>>
  /\ directMatch' = <<>>
  /\ aiMatch' = <<>>
  /\ faults' = {}
  /\ matchedPrice' = <<>>
  /\ priceData' = <<>>
  /\ smartData' = NoSmartData
  /\ calls' = <<>>
  /\ cacheReadAt' = NullNum
  /\ atStart' = [exact |-> EqualKeys(price_lookup, normalizeText(validateQuery(q))),
                 match |-> MatchingKeys(price_lookup, normalizeText(validateQuery(q))) # {}]
  /\ response' = <<>>
  /\ UNCHANGED <<fn, now, store, imports>>

\* the cache check of the first revision of the handler: any live entry,
\* negative or not, is the answer
CheckCacheNoRecheck ==
  /\ pc = "cache"
  /\ LET c == CacheRead(price_cache, normalizedQuery, now) IN
       /\ cached' = c
       /\ cacheReadAt' = (IF c # <<>> THEN now ELSE NullNum)
       /\ IF c # <<>>
          THEN /\ calls' = Log("cache", TRUE)
               /\ response' = Resp(c[1].canonical_key, ParseOrNull(c[1].avg_price_ils),
                                   ParseOrNull(c[1].confidence), TRUE, "cache")
               /\ pc' = "done"
          ELSE /\ calls' = Log("cache", FALSE)
               /\ response' = response
               /\ pc' = "exact"
  /\ UNCHANGED <<fn, now, store, op, query, normalizedQuery, directMatch, aiMatch, faults, matchedPrice,
                 priceData, smartData, atStart, resolves, imports>>

\* "Check cache first": a live positive entry is the answer, a live negative
\* entry sends the handler to the recheck, no live entry to the tiers
CheckCache ==
  /\ pc = "cache"
  /\ LET c == CacheRead(price_cache, normalizedQuery, now) IN
       /\ cached' = c
       /\ cacheReadAt' = (IF c # <<>> THEN now ELSE NullNum)
       /\ IF c # <<>> /\ c[1].canonical_key # NULL
          THEN /\ calls' = Log("cache", TRUE)
               /\ response' = Resp(c[1].canonical_key, ParseOrNull(c[1].avg_price_ils),
                                   ParseOrNull(c[1].confidence), TRUE, "cache")
               /\ pc' = "done"
          ELSE /\ calls' = Log("cache", FALSE)
               /\ response' = response
               /\ pc' = "exact"
  /\ UNCHANGED <<fn, now, store, op, query, normalizedQuery, directMatch, aiMatch, faults, matchedPrice,
                 priceData, smartData, atStart, resolves, imports>>

\* findDirectMatch, "Try exact match first": .ilike(canonical_key, normalized)
\* .limit(1).single() returns one of the matching rows, whichever the scan meets
FindExact ==
  /\ pc = "exact"
  /\ LET m == ExactMatches(price_lookup, normalizedQuery) IN
       IF m # {}
       THEN /\ \E k \in m : directMatch' = <<SelectRow(price_lookup, k)>>
            /\ calls' = Log("exact", TRUE)
            /\ pc' = "matched"
       ELSE /\ directMatch' = <<>>
            /\ calls' = Log("exact", FALSE)
            /\ pc' = "fuzzy"
  /\ UNCHANGED <<fn, now, store, op, query, normalizedQuery, cached, aiMatch, faults, matchedPrice, priceData, smartData,
                 response, cacheReadAt, atStart, resolves, imports>>

\* the answer to a live negative entry whose recheck found nothing: "Cache hit"
CachedNegative ==
  Resp(cached[1].canonical_key, ParseOrNull(cached[1].avg_price_ils),
       ParseOrNull(cached[1].confidence), TRUE, "cache")

\* a recheck without a match that goes on to the tiers after the cache
RecheckFallsThrough == FALSE

\* after a recheck without a match the handler answers from the cached row
RecheckEnds == cached # <<>>

\* findDirectMatch, "Fetch all keys for more sophisticated matching": the scan
\* over all rows, scored; then the handler's "if (directMatch)"
FindFuzzy ==
  /\ pc = "fuzzy"
  /\ \E allItems \in Orderings(DOMAIN price_lookup) :
       LET m == BestMatch(normalizedQuery, allItems) IN
         /\ directMatch' = (IF m = NULL THEN <<>> ELSE <<SelectRow(price_lookup, m)>>)
         /\ calls' = Log("fuzzy", m # NULL)
         /\ IF m # NULL
            THEN pc' = "matched" /\ response' = response
            ELSE IF RecheckEnds
            THEN pc' = "done" /\ response' = CachedNegative
            ELSE pc' = "keys" /\ response' = response
  /\ UNCHANGED <<fn, now, store, op, query, normalizedQuery, cached, aiMatch, faults, matchedPrice, priceData, smartData,
                 cacheReadAt, atStart, resolves, imports>>

\* "if (directMatch)": after a cached negative the entry is updated, after a
\* miss the result is upserted; the response is the same
SaveDirect ==
  /\ pc = "matched"
  /\ price_cache' =
       IF cached # <<>>
       THEN CacheUpdate(price_cache, normalizedQuery, directMatch[1].canonical_key,
                        directMatch[1].avg_price_ils, 100, directMatch[1].sample_count, now)
       ELSE CacheUpsert(price_cache, normalizedQuery, directMatch[1].canonical_key,
                        directMatch[1].avg_price_ils, 100, directMatch[1].sample_count, now)
  /\ response' = Resp(directMatch[1].canonical_key, directMatch[1].avg_price_ils,
                      100, FALSE, "direct")
  /\ pc' = "done"
  /\ UNCHANGED <<fn, now, price_lookup, chain_prices, locals, resolves, imports>>

\* "Get all canonical keys for AI matching"; an empty table ends the request
FetchAllKeys ==
  /\ pc = "keys"
  /\ IF DOMAIN price_lookup = {}
     THEN pc' = "done" /\ response' = NotFound
     ELSE pc' = "ai" /\ response' = response
  /\ UNCHANGED <<fn, now, store, locals, resolves, imports>>

\* the test without its floor: "if (!aiMatch)"
AiRejectedNoFloor(ai) == ai = <<>>

\* "if (!aiMatch || aiMatch.confidence < 0.55)"
AiRejected(ai) == ai = <<>> \/ ai[1].confidence < AI_FLOOR

\* a handler that tries the smart price lookup whatever matchWithAI answered
AfterAiAlwaysWeb(ai) == "web_search"

\* where the handler goes with the answer of matchWithAI: to the smart price
\* lookup, or on to "Look up the matched key"
AfterAi(ai) == IF AiRejected(ai) THEN "web_search" ELSE "lookup"

\* matchWithAI: the language model's answer is any of AiAnswers
MatchWithAI ==
  /\ pc = "ai"
  /\ \E ai \in AiAnswers :
       /\ aiMatch' = ai
       /\ faults' = faults
       /\ calls' = Log("semantic", ~AiRejected(ai))
       /\ pc' = AfterAi(ai)
  /\ UNCHANGED <<fn, now, store, op, query, normalizedQuery, cached, directMatch, matchedPrice, priceData, smartData,
                 response, cacheReadAt, atStart, resolves, imports>>

\* a handler that takes the key of the language model without looking it up
LookupMatchedKeyTrusting ==
  /\ pc = "lookup"
  /\ matchedPrice' = <<[canonical_key |-> aiMatch[1].canonicalKey, avg_price_ils |-> NullNum,
                        sample_count |-> NullNum]>>
  /\ pc' = "save_ai"
  /\ response' = response
  /\ UNCHANGED <<fn, now, store, op, query, normalizedQuery, cached, directMatch, aiMatch, faults, priceData, smartData,
                 calls, cacheReadAt, atStart, resolves, imports>>

\* "Look up the matched key": .eq('canonical_key', aiMatch.canonicalKey); a key
\* that is not in the table ends the request
LookupMatchedKey ==
  /\ pc = "lookup"
  /\ IF aiMatch[1].canonicalKey \in DOMAIN price_lookup
     THEN /\ matchedPrice' = <<SelectRow(price_lookup, aiMatch[1].canonicalKey)>>
          /\ pc' = "save_ai"
          /\ response' = response
     ELSE /\ matchedPrice' = <<>>
          /\ pc' = "done"
          /\ response' = NotFound
  /\ UNCHANGED <<fn, now, store, op, query, normalizedQuery, cached, directMatch, aiMatch, faults, priceData, smartData,
                 calls, cacheReadAt, atStart, resolves, imports>>

\* "Cache the result" of the AI match and answer with it
SaveAiMatch ==
  /\ pc = "save_ai"
  /\ price_cache' = CacheUpsert(price_cache, normalizedQuery, matchedPrice[1].canonical_key,
                                matchedPrice[1].avg_price_ils, aiMatch[1].confidence,
                                matchedPrice[1].sample_count, now)
  /\ response' = Resp(matchedPrice[1].canonical_key, matchedPrice[1].avg_price_ils,
                      aiMatch[1].confidence, FALSE, "ai")
  /\ pc' = "done"
  /\ UNCHANGED <<fn, now, price_lookup, chain_prices, locals, resolves, imports>>

\* ------------------------------------- smart-price-lookup, as called by the
\* national-average handler with productName = query
SmartNotFound == [ok |-> TRUE, found |-> FALSE, canonicalName |-> NULL,
                  avgPrice |-> NullNum, confidence |-> NullNum]

\* what the search step can end in: "error" is every path to a 500 response
\* or a thrown fetch, "empty" is no search result, "results" is some result
SearchOutcomes == {"error", "empty", "results"}

\* the fetch of smart-price-lookup up to the end of the web search
WebSearch ==
  /\ pc = "web_search"
  /\ calls' = Log("web", FALSE)
  /\ \E o \in SearchOutcomes :
       CASE o = "error" -> smartData' = NoSmartData /\ pc' = "after_web"
         [] o = "empty" -> smartData' = SmartNotFound /\ pc' = "after_web"
         [] o = "results" -> smartData' = smartData /\ pc' = "web_extract"
  /\ UNCHANGED <<fn, now, store, op, query, normalizedQuery, cached, directMatch, aiMatch, faults, matchedPrice, priceData,
                 response, cacheReadAt, atStart, resolves, imports>>

\* "if (!priceData.found || priceData.confidence < 0.5)"
LowConfidence(pd) == ~pd.found \/ (pd.confidence # Undefined /\ pd.confidence < WEB_FLOOR)

\* what the extraction can end in: "error" is every path to a 500 response,
\* "unusable" every found:false answer before the record is parsed
ExtractOutcomes == {"error", "unusable", "parsed"}

\* the language model call of smart-price-lookup and the confidence gate
WebExtract ==
  /\ pc = "web_extract"
  /\ \E o \in ExtractOutcomes :
       CASE o = "error" ->
              smartData' = NoSmartData /\ priceData' = <<>> /\ pc' = "after_web"
         [] o = "unusable" ->
              smartData' = SmartNotFound /\ priceData' = <<>> /\ pc' = "after_web"
         [] o = "parsed" ->
              \E pd \in PriceDataSet :
                IF LowConfidence(pd)
                THEN smartData' = SmartNotFound /\ priceData' = <<>> /\ pc' = "after_web"
                ELSE smartData' = smartData /\ priceData' = <<pd>> /\ pc' = "web_lookup"
  /\ UNCHANGED <<fn, now, store, op, query, normalizedQuery, cached, directMatch, aiMatch, faults, matchedPrice, response,
                 calls, cacheReadAt, atStart, resolves, imports>>

\* priceData.canonicalName || productName
canonicalName ==
  IF priceData[1].canonicalName \in {NULL, <<>>} THEN query ELSE priceData[1].canonicalName

\* the non-null entries of priceData.chainPrices
chainEntries == priceData[1].chainPrices

\* "Save to price_lookup table"; avg_price_ils is NOT NULL, so a record
\* without a price is an error that is logged and the row is not written
WebSaveLookup ==
  /\ pc = "web_lookup"
  /\ price_lookup' =
       IF priceData[1].avgPrice = NullNum THEN price_lookup
       ELSE LookupUpsert(price_lookup, canonicalName, priceData[1].avgPrice, 1)
  /\ pc' = IF chainEntries # {} THEN "web_chains" ELSE "web_cache"
  /\ UNCHANGED <<fn, now, chain_prices, price_cache, locals, response, resolves, imports>>

RECURSIVE UpsertChains(_, _, _)
UpsertChains(table, key, entries) ==
  IF entries = {} THEN table
  ELSE LET e == CHOOSE x \in entries : TRUE
       IN  UpsertChains(Put(table, <<key, e[1]>>, e[2]), key, entries \ {e})

\* "Save chain prices if available"
WebSaveChains ==
  /\ pc = "web_chains"
  /\ chain_prices' = UpsertChains(chain_prices, canonicalName, chainEntries)
  /\ pc' = "web_cache"
  /\ UNCHANGED <<fn, now, price_lookup, price_cache, locals, response, resolves, imports>>

\* productName.trim().toLowerCase(), the key smart-price-lookup caches under
smartCacheKey == ToLower(Trim(query))

\* the confidence column after the upsert: a missing field is not in the
\* payload, so a new row has NULL and an old row keeps what it had
storedConfidence ==
  IF priceData[1].confidence # Undefined THEN priceData[1].confidence
  ELSE IF smartCacheKey \in DOMAIN price_cache THEN price_cache[smartCacheKey].confidence
  ELSE NullNum

\* "Update price_cache for this query", then the found:true response
WebSaveCache ==
  /\ pc = "web_cache"
  /\ price_cache' = CacheUpsert(price_cache, smartCacheKey, canonicalName,
                                priceData[1].avgPrice, storedConfidence, 1, now)
  /\ smartData' = [ok |-> TRUE, found |-> TRUE, canonicalName |-> canonicalName,
                   avgPrice |-> priceData[1].avgPrice,
                   confidence |-> priceData[1].confidence]
  /\ pc' = "after_web"
  /\ UNCHANGED <<fn, now, price_lookup, chain_prices, op, query, normalizedQuery, cached, directMatch, aiMatch, faults,
                 matchedPrice, priceData, response, calls, cacheReadAt, atStart, resolves, imports>>

\* "if (smartLookupResponse.ok) ... if (smartData.found && smartData.avgPrice)"
SmartFound(sd) == sd.ok /\ sd.found /\ sd.avgPrice # NullNum /\ sd.avgPrice # 0

\* smartData.confidence || 0.7
WebConfidence(sd) ==
  IF sd.confidence \in {NullNum, Undefined, 0} THEN DEFAULT_WEB_CONFIDENCE
  ELSE sd.confidence

\* back in national-average: a found price is the answer, anything else goes
\* on to the negative cache write
AfterWeb ==
  /\ pc = "after_web"
  /\ IF SmartFound(smartData)
     THEN /\ response' = Resp(smartData.canonicalName, smartData.avgPrice,
                              WebConfidence(smartData), FALSE, "web")
          /\ calls' = [calls EXCEPT ![Len(calls)].hit = TRUE]
          /\ pc' = "done"
     ELSE /\ response' = response
          /\ calls' = calls
          /\ pc' = "save_negative"
  /\ UNCHANGED <<fn, now, store, op, query, normalizedQuery, cached, directMatch, aiMatch, faults, matchedPrice, priceData,
                 smartData, cacheReadAt, atStart, resolves, imports>>

\* aiMatch?.confidence ?? 0
NegativeConfidence == IF aiMatch = <<>> THEN 0 ELSE aiMatch[1].confidence

\* "Cache negative result if smart lookup also failed"
SaveNegative ==
  /\ pc = "save_negative"
  /\ price_cache' = CacheUpsert(price_cache, normalizedQuery, NULL, NullNum,
                                NegativeConfidence, NullNum, now)
  /\ response' = NotFound
  /\ pc' = "done"
  /\ UNCHANGED <<fn, now, price_lookup, chain_prices, locals, resolves, imports>>

\* ------------------------------------------- failures of store and services
\* A store call that fails resolves to { data: null, error }: the client
\* library does not throw, and the handler reads only data.
\* what no step of a request in progress changes
untouched == <<fn, now, op, query, normalizedQuery, atStart, resolves, imports>>

\* the step f of the request fails
Fault(f) ==
  /\ Cardinality(faults) < MaxFaults
  /\ faults' = faults \cup {f}

\* the cache read fails: cached is null, as on a miss
CacheReadFails ==
  /\ pc = "cache"
  /\ Fault("cache_read")
  /\ cached' = <<>>
  /\ cacheReadAt' = NullNum
  /\ calls' = Log("cache", FALSE)
  /\ pc' = "exact"
  /\ UNCHANGED <<untouched, store, directMatch, aiMatch, matchedPrice, priceData, smartData,
                 response>>

\* findDirectMatch: the exact-match query fails, exactMatch is null
FindExactFails ==
  /\ pc = "exact"
  /\ Fault("exact_read")
  /\ directMatch' = <<>>
  /\ calls' = Log("exact", FALSE)
  /\ pc' = "fuzzy"
  /\ UNCHANGED <<untouched, store, cached, aiMatch, matchedPrice, priceData, smartData,
                 response, cacheReadAt>>

\* findDirectMatch: the scan of all rows fails, allItems is null
FindFuzzyFails ==
  /\ pc = "fuzzy"
  /\ Fault("scan_read")
  /\ directMatch' = <<>>
  /\ calls' = Log("fuzzy", FALSE)
  /\ IF RecheckEnds
     THEN pc' = "done" /\ response' = CachedNegative
     ELSE pc' = "keys" /\ response' = response
  /\ UNCHANGED <<untouched, store, cached, aiMatch, matchedPrice, priceData, smartData,
                 cacheReadAt>>

\* a handler that gives up when the cache write fails
SaveDirectAborts ==
  /\ pc = "matched"
  /\ Fault("cache_write")
  /\ response' = <<[status |-> 500, canonicalKey |-> NULL, avgPriceIls |-> NullNum,
                    confidence |-> NullNum, cached |-> FALSE, source |-> "error"]>>
  /\ pc' = "done"
  /\ UNCHANGED <<untouched, store, cached, directMatch, aiMatch, matchedPrice, priceData,
                 smartData, calls, cacheReadAt>>

\* the cache write after a direct match fails: the response is the same
SaveDirectFails ==
  /\ pc = "matched"
  /\ Fault("cache_write")
  /\ response' = Resp(directMatch[1].canonical_key, directMatch[1].avg_price_ils,
                      100, FALSE, "direct")
  /\ pc' = "done"
  /\ UNCHANGED <<untouched, store, cached, directMatch, aiMatch, matchedPrice, priceData,
                 smartData, calls, cacheReadAt>>

\* a store client that throws on an error: the catch of the handler answers
FetchAllKeysThrows ==
  /\ pc = "keys"
  /\ Fault("keys_read")
  /\ pc' = "done"
  /\ response' = <<[status |-> 500, canonicalKey |-> NULL, avgPriceIls |-> NullNum,
                    confidence |-> NullNum, cached |-> FALSE, source |-> "error"]>>
  /\ UNCHANGED <<untouched, store, cached, directMatch, aiMatch, matchedPrice, priceData,
                 smartData, calls, cacheReadAt>>

\* the read of all canonical keys fails: allKeys is null
FetchAllKeysFails ==
  /\ pc = "keys"
  /\ Fault("keys_read")
  /\ pc' = "done"
  /\ response' = NotFound
  /\ UNCHANGED <<untouched, store, cached, directMatch, aiMatch, matchedPrice, priceData,
                 smartData, calls, cacheReadAt>>

\* the ways matchWithAI ends without an answer before it has parsed one: no
\* API key, fetch throws, status 429, another status that is not OK, no
\* content, no JSON object in the content, JSON.parse throws
AiFailures == {"ai_no_key", "ai_transport", "ai_status_429", "ai_status_not_ok",
               "ai_no_content", "ai_no_json", "ai_bad_json"}

\* a matcher that answers with a guess when the service failed
AiFailureGuess(f) == <<[canonicalKey |-> K_MILK, confidence |-> 100]>>

\* what matchWithAI returns on each of them
AiFailureReturn(f) == <<>>

MatchWithAIFails ==
  /\ pc = "ai"
  /\ \E f \in AiFailures :
       /\ Fault("match_with_ai")
       /\ aiMatch' = AiFailureReturn(f)
       /\ calls' = Log("semantic", ~AiRejected(AiFailureReturn(f)))
       /\ pc' = AfterAi(AiFailureReturn(f))
  /\ UNCHANGED <<untouched, store, cached, directMatch, matchedPrice, priceData, smartData,
                 response, cacheReadAt>>

\* the read of the matched key fails: matchedPrice is null
LookupMatchedKeyFails ==
  /\ pc = "lookup"
  /\ Fault("matched_read")
  /\ matchedPrice' = <<>>
  /\ pc' = "done"
  /\ response' = NotFound
  /\ UNCHANGED <<untouched, store, cached, directMatch, aiMatch, priceData, smartData,
                 calls, cacheReadAt>>

\* the cache write after an AI match fails: the response is the same
SaveAiMatchFails ==
  /\ pc = "save_ai"
  /\ Fault("cache_write")
  /\ response' = Resp(matchedPrice[1].canonical_key, matchedPrice[1].avg_price_ils,
                      aiMatch[1].confidence, FALSE, "ai")
  /\ pc' = "done"
  /\ UNCHANGED <<untouched, store, cached, directMatch, aiMatch, matchedPrice, priceData,
                 smartData, calls, cacheReadAt>>

\* the negative cache write fails: the response is the same
SaveNegativeFails ==
  /\ pc = "save_negative"
  /\ Fault("cache_write")
  /\ response' = NotFound
  /\ pc' = "done"
  /\ UNCHANGED <<untouched, store, cached, directMatch, aiMatch, matchedPrice, priceData,
                 smartData, calls, cacheReadAt>>

\* smart-price-lookup: the failures up to the end of the web search: no
\* Firecrawl key, the search fetch throws, the search status is not OK, the
\* search has no result; and the orchestrator's own fetch of the function throws
WebSearchFailures == {"web_call_transport", "web_no_search_key", "web_search_transport",
                      "web_search_not_ok", "web_search_empty"}

\* smart-price-lookup: the failures of the extraction: no AI key, the AI fetch
\* throws, the AI status is not OK, no content, no JSON object in the content,
\* JSON.parse throws
WebExtractFailures == {"web_no_ai_key", "web_ai_transport", "web_ai_not_ok",
                       "web_no_content", "web_no_json", "web_bad_json"}

\* the failures smart-price-lookup answers with status 200 and found: false;
\* the others end in status 500 with found: false, or in no response at all
WebSoftFailures == {"web_search_empty", "web_ai_not_ok", "web_no_content", "web_no_json"}

\* a fetcher that answers found: true after a failure
WebFailureFound(f) == [ok |-> TRUE, found |-> TRUE, canonicalName |-> K_OLIVE,
                       avgPrice |-> 9, confidence |-> DEFAULT_WEB_CONFIDENCE]

\* what the orchestrator has of the response after the failure f
WebFailureResponse(f) == IF f \in WebSoftFailures THEN SmartNotFound ELSE NoSmartData

WebSearchFails ==
  /\ pc = "web_search"
  /\ calls' = Log("web", FALSE)
  /\ \E f \in WebSearchFailures :
       /\ Fault("web_search")
       /\ smartData' = WebFailureResponse(f)
  /\ pc' = "after_web"
  /\ UNCHANGED <<untouched, store, cached, directMatch, aiMatch, matchedPrice, priceData,
                 response, cacheReadAt>>

WebExtractFails ==
  /\ pc = "web_extract"
  /\ \E f \in WebExtractFailures :
       /\ Fault("web_extract")
       /\ smartData' = WebFailureResponse(f)
  /\ priceData' = <<>>
  /\ pc' = "after_web"
  /\ UNCHANGED <<untouched, store, cached, directMatch, aiMatch, matchedPrice, response,
                 calls, cacheReadAt>>

\* the stores of smart-price-lookup that fail: the error is logged, or not
\* even read, and the function goes on
WebWriteFailures == {"web_lookup_write", "web_chains_write", "web_cache_write"}

WebSaveLookupFails ==
  /\ pc = "web_lookup"
  /\ Fault("web_lookup_write")
  /\ pc' = IF chainEntries # {} THEN "web_chains" ELSE "web_cache"
  /\ UNCHANGED <<untouched, store, cached, directMatch, aiMatch, matchedPrice, priceData,
                 smartData, response, calls, cacheReadAt>>

WebSaveChainsFails ==
  /\ pc = "web_chains"
  /\ Fault("web_chains_write")
  /\ pc' = "web_cache"
  /\ UNCHANGED <<untouched, store, cached, directMatch, aiMatch, matchedPrice, priceData,
                 smartData, response, calls, cacheReadAt>>

WebSaveCacheFails ==
  /\ pc = "web_cache"
  /\ Fault("web_cache_write")
  /\ smartData' = [ok |-> TRUE, found |-> TRUE, canonicalName |-> canonicalName,
                   avgPrice |-> priceData[1].avgPrice,
                   confidence |-> priceData[1].confidence]
  /\ pc' = "after_web"
  /\ UNCHANGED <<untouched, store, cached, directMatch, aiMatch, matchedPrice, priceData,
                 response, calls, cacheReadAt>>

\* ------------------------------------- requests that end before the tiers
\* { error } with a status that is not OK
ErrorResp(status) ==
  <<[status |-> status, canonicalKey |-> NULL, avgPriceIls |-> NullNum,
     confidence |-> NullNum, cached |-> FALSE, source |-> "error"]>>

\* a query longer than MAX_QUERY_LENGTH
LongQuery == [i \in 1..(MAX_QUERY_LENGTH + 1) |-> "h"]

\* query parameters validateQuery rejects: none, blank, too long
BadQueries == {NULL, <<" ">>, LongQuery}

\* a request that is answered resp before the handler reads a table; sanitized
\* is the query as far as the handler got with it, NULL before validateQuery
EndsEarly(sanitized, resp, f) ==
  /\ pc \in {"idle", "done"}
  /\ resolves < MaxResolves
  /\ resolves' = resolves + 1
  /\ op' = "national-average"
  /\ query' = sanitized
  /\ normalizedQuery' = NULL
  /\ cached' = <<>>
  /\ directMatch' = <<>>
  /\ aiMatch' = <<>>
  /\ faults' = {f}
  /\ matchedPrice' = <<>>
  /\ priceData' = <<>>
  /\ smartData' = NoSmartData
  /\ calls' = <<>>
  /\ cacheReadAt' = NullNum
  /\ atStart' = [exact |-> {}, match |-> FALSE]
  /\ response' = resp
  /\ pc' = "done"
  /\ UNCHANGED <<fn, now, store, imports>>

\* the client's fetch of the function throws: there is no response
Unreachable == EndsEarly(NULL, <<>>, "fetch_throws")

\* validateApiKey fails, before the query is read
Unauthorized == EndsEarly(NULL, ErrorResp(401), "unauthorized")

\* validateQuery fails
RejectQuery(q) == validateQuery(q) = NULL /\ EndsEarly(NULL, ErrorResp(400), "invalid_query")

\* createClient throws on a missing SUPABASE_URL: the catch of the handler
ConfigMissing(q) ==
  validateQuery(q) # NULL /\ EndsEarly(validateQuery(q), ErrorResp(500), "no_config")

\* fetchPrice of the client on the outcome of its request: null when the fetch
\* threw or the status is not OK, else result.avgPriceIls ?? null
fetchPriceReturn(resp) ==
  IF resp = <<>> THEN NullNum
  ELSE IF resp[1].status # 200 THEN NullNum
  ELSE resp[1].avgPriceIls

\* --------------------------------------------------- resolve_query (RPC)
\* lower(trim(regexp_replace(q, '[\s]+', ' ', 'g')))
rpcNormalize(q) == ToLower(Trim(CollapseSpaces(q)))

\* value LIKE '%' || part || '%'
LikeContains(value, part) == LikeMatch(value, <<"%">> \o part \o <<"%">>)

\* ORDER BY length(canonical_key) ASC LIMIT 1: the rows the query can return
Shortest(keys) == {k \in keys : \A j \in keys : Len(k) <= Len(j)}

RpcResp(resolved, conf, src) == Resp(resolved, NullNum, conf, FALSE, src)

\* the cache tier of resolve_query: the rows with lower(query) = normalized
\* and a canonical_key
RpcCacheRows(cache, normalized) ==
  {x \in DOMAIN cache : ToLower(x) = normalized /\ cache[x].canonical_key # NULL}

\* plpgsql.variable_conflict, the setting of the database that decides what
\* the name word means in the fourth query, where it is both the variable
\* declared in the block and the column of unnest(words) AS word: error (the
\* default) raises "column reference is ambiguous", use_variable reads the
\* variable, which is NULL, and use_column reads the words of the query
VariableConflict == {"error", "use_variable", "use_column"}

\* the four tiers of resolve_query in one call; the function reads, it writes
\* nothing
ResolveQueryRpc(q) ==
  /\ pc \in {"idle", "done"}
  /\ resolves < MaxResolves
  /\ resolves' = resolves + 1
  /\ pc' = "done"
  /\ op' = "resolve_query"
  /\ query' = q
  /\ normalizedQuery' = rpcNormalize(q)
  /\ directMatch' = <<>>
  /\ aiMatch' = <<>>
  /\ faults' = {}
  /\ matchedPrice' = <<>>
  /\ priceData' = <<>>
  /\ smartData' = NoSmartData
  /\ calls' = <<>>
  /\ atStart' = [exact |-> {}, match |-> FALSE]
  /\ LET nq == rpcNormalize(q)
         exact == EqualKeys(price_lookup, nq)
         rows == RpcCacheRows(price_cache, nq)
         partial == {k \in DOMAIN price_lookup : LikeContains(ToLower(k), nq)}
         words == Words(nq)
         allWords == {k \in DOMAIN price_lookup :
                        \A i \in DOMAIN words : LikeContains(ToLower(k), words[i])}
     IN  IF exact # {}
         THEN /\ \E k \in exact : response' = RpcResp(k, 100, "exact")
              /\ cached' = <<>> /\ cacheReadAt' = NullNum
         ELSE IF rows # {}
         THEN \E x \in rows :
                /\ response' = RpcResp(price_cache[x].canonical_key, 95, "cache")
                /\ cached' = <<price_cache[x]>> /\ cacheReadAt' = now
         ELSE IF partial # {}
         THEN /\ \E k \in Shortest(partial) : response' = RpcResp(k, 80, "partial")
              /\ cached' = <<>> /\ cacheReadAt' = NullNum
         ELSE IF Len(words) > 0
         THEN /\ \E conflict \in VariableConflict :
                   IF conflict = "error" THEN response' = ErrorResp(400)
                   ELSE IF conflict = "use_column" /\ allWords # {}
                   THEN \E k \in Shortest(allWords) : response' = RpcResp(k, 60, "words")
                   ELSE response' = RpcResp(NULL, 0, "fallback")
              /\ cached' = <<>> /\ cacheReadAt' = NullNum
         ELSE /\ response' = RpcResp(NULL, 0, "fallback")
              /\ cached' = <<>> /\ cacheReadAt' = NullNum
  /\ UNCHANGED <<fn, now, store, imports>>

\* ------------------------------------------------------------ environment
\* Time passes, half a retention window at a time.  A request lasts seconds,
\* so at this grain the clock stands still while a request is in progress.
TimeStep == TTL_DAYS \div 2

Tick ==
  /\ pc \in {"idle", "done"}
  /\ now + TimeStep <= MaxTicks * TimeStep
  /\ now' = now + TimeStep
  /\ UNCHANGED <<fn, store, pc, locals, response, resolves, imports>>

\* import-external-supabase, "Import to price_lookup": one row, its key
\* lower-cased and trimmed, kept when the key is not empty and the price > 0
ImportLookup(name, price) ==
  LET key == Trim(ToLower(name)) IN
  /\ imports < MaxImports
  /\ key # <<>> /\ price > 0
  /\ imports' = imports + 1
  /\ price_lookup' = LookupUpsert(price_lookup, key, price, 1)
  /\ UNCHANGED <<fn, now, chain_prices, price_cache, pc, locals, response, resolves>>

Next ==
  \/ \E q \in Queries : Start(q)
  \/ CheckCache
  \/ FindExact
  \/ FindFuzzy
  \/ SaveDirect
  \/ FetchAllKeys
  \/ MatchWithAI
  \/ LookupMatchedKey
  \/ SaveAiMatch
  \/ WebSearch
  \/ WebExtract
  \/ WebSaveLookup
  \/ WebSaveChains
  \/ WebSaveCache
  \/ AfterWeb
  \/ SaveNegative
  \/ \E q \in Queries : ResolveQueryRpc(q)
  \/ Tick
  \/ \E k \in ImportKeys, p \in ImportPrices : ImportLookup(k, p)

Spec == Init /\ [][Next]_vars

\* the program with the failures of the store, of the services and of the
\* request itself
NextFaults ==
  \/ Next
  \/ CacheReadFails
  \/ FindExactFails
  \/ FindFuzzyFails
  \/ SaveDirectFails
  \/ FetchAllKeysFails
  \/ MatchWithAIFails
  \/ LookupMatchedKeyFails
  \/ SaveAiMatchFails
  \/ SaveNegativeFails
  \/ WebSearchFails
  \/ WebExtractFails
  \/ WebSaveLookupFails
  \/ WebSaveChainsFails
  \/ WebSaveCacheFails
  \/ Unreachable
  \/ Unauthorized
  \/ \E q \in BadQueries : RejectQuery(q)
  \/ \E q \in Queries : ConfigMissing(q)

SpecFaults == Init /\ [][NextFaults]_vars

\* --------------------------- matchWithAI on whatever the language model says
\* the JSON object in the content: a confidence above 1, a negative one, one
\* that is not a number
AiReplies == {[canonicalKey |-> K_MILK, confidence |-> c] : c \in {150, 0 - 10, NotANumber}}

\* "if (parsed.canonicalKey && parsed.confidence > 0)"
matchWithAIReturn(parsed) ==
  IF parsed.canonicalKey # NULL /\ parsed.confidence # NotANumber /\ parsed.confidence > 0
  THEN <<[canonicalKey |-> parsed.canonicalKey, confidence |-> parsed.confidence]>>
  ELSE <<>>

MatchWithAIReply ==
  /\ pc = "ai"
  /\ \E parsed \in AiReplies :
       /\ aiMatch' = matchWithAIReturn(parsed)
       /\ calls' = Log("semantic", ~AiRejected(matchWithAIReturn(parsed)))
       /\ pc' = AfterAi(matchWithAIReturn(parsed))
  /\ UNCHANGED <<untouched, faults, store, cached, directMatch, matchedPrice, priceData,
                 smartData, response, cacheReadAt>>

NextReplies == Next \/ MatchWithAIReply

SpecReplies == Init /\ [][NextReplies]_vars

\* ------------------------------------ findDirectMatch's scan, on its own
\* every variable but fn
program == <<now, price_lookup, chain_prices, price_cache, pc, op, query, normalizedQuery,
             cached, directMatch, aiMatch, faults, matchedPrice, priceData, smartData,
             response, calls, cacheReadAt, atStart, resolves, imports>>

\* normalized queries and canonical keys over a small alphabet
FuzzyQueries == {<<"a", "b">>, <<"a">>, <<"a", " ", "b">>, <<"b", " ", "c">>, <<"x">>}
FuzzyKeys == {<<"a">>, <<"b">>, <<"a", "b", "c">>, <<"A", "-", "b">>, <<"c", " ", "d">>,
              <<"b", "a", "b", "c">>}

\* the lists of up to MaxItems distinct rows the scan can return
FuzzyItemLists ==
  UNION {{l \in [1..n -> FuzzyKeys] : \A i, j \in 1..n : l[i] = l[j] => i = j} : n \in 0..MaxItems}

InitFuzzy ==
  /\ InitProgram
  /\ fn \in {[name |-> "findDirectMatch", at |-> "score", normalized |-> q, allItems |-> l,
              scores |-> <<>>, result |-> NULL] : q \in FuzzyQueries, l \in FuzzyItemLists}

\* "Score each item based on matching"
ScoreItems ==
  /\ fn.name = "findDirectMatch" /\ fn.at = "score"
  /\ fn' = [fn EXCEPT !.scores = [i \in DOMAIN fn.allItems |-> Score(fn.normalized, fn.allItems[i])],
                      !.at = "sort"]
  /\ UNCHANGED program

\* "Filter items with positive score and sort by score descending", return
ReturnBest ==
  /\ fn.name = "findDirectMatch" /\ fn.at = "sort"
  /\ fn' = [fn EXCEPT !.result = BestMatch(fn.normalized, fn.allItems), !.at = "returned"]
  /\ UNCHANGED program

NextFuzzy == ScoreItems \/ ReturnBest

SpecFuzzy == InitFuzzy /\ [][NextFuzzy]_vars

\* --------------------------- the scan over keys of one to four characters
\* queries and keys that meet every rule with keys of several lengths
TierQueries == {<<"b", "c">>, <<"a", "b", "c">>, <<"b">>, <<"a", "b", "c", "d">>, <<"c">>}
TierKeys == {<<"b">>, <<"b", "c">>, <<"a", "b", "c">>, <<"a", "b", "c", "d">>, <<"c", " ", "d">>,
             <<"x">>}

TierItemLists ==
  UNION {{l \in [1..n -> TierKeys] : \A i, j \in 1..n : l[i] = l[j] => i = j} : n \in 0..MaxItems}

InitTiers ==
  /\ InitProgram
  /\ fn \in {[name |-> "findDirectMatch", at |-> "score", normalized |-> q, allItems |-> l,
              scores |-> <<>>, result |-> NULL] : q \in TierQueries, l \in TierItemLists}

SpecTiers == InitTiers /\ [][NextFuzzy]_vars

\* a step of a request that has arrived
HandlerStep ==
  \/ CheckCache
  \/ FindExact
  \/ FindFuzzy
  \/ SaveDirect
  \/ FetchAllKeys
  \/ MatchWithAI
  \/ LookupMatchedKey
  \/ SaveAiMatch
  \/ WebSearch
  \/ WebExtract
  \/ WebSaveLookup
  \/ WebSaveChains
  \/ WebSaveCache
  \/ AfterWeb
  \/ SaveNegative

\* ------------------------- requests whose query normalizes to the empty string
\* queries of quote and dash characters only: validateQuery accepts them,
\* normalizeText leaves nothing
QuoteQueries == {<<"APOS">>, <<"-">>, <<"GERSHAYIM", "-", "APOS">>}

InitQuotes ==
  /\ InitProgram
  /\ fn \in {[name |-> "request", query |-> q] : q \in QuoteQueries}

\* the request arrives
StartGiven == fn.name = "request" /\ Start(fn.query)

NextQuotes ==
  \/ StartGiven
  \/ HandlerStep
  \/ Tick
  \/ \E k \in ImportKeys, p \in ImportPrices : ImportLookup(k, p)

SpecQuotes == InitQuotes /\ [][NextQuotes]_vars

\* ------------------------------------------- the normalizations, on their own
\* the characters of the texts: white space, the quotes of the character
\* class, the geresh, which is not in it, dashes, a letter in both cases, a
\* sign
TextChars == {" ", "TAB", "APOS", "GERSHAYIM", "GERESH", "-", "EMDASH", "H", "h", "%"}

\* the query and the stored key of the cottage cheese scenario: the
\* four-letter word, with a geresh in the query and an apostrophe in the key
Q_COTTAGE == <<"q", "o", "t", "g", "GERESH", " ", "5", "%">>
K_COTTAGE == <<"q", "o", "t", "g", "APOS">>

\* the texts of up to MaxText characters, and the two of the scenario
Texts == UNION {[1..n -> TextChars] : n \in 0..MaxText} \cup {Q_COTTAGE, K_COTTAGE}

Normalizers == {"normalizeText", "normalizeQuery"}

\* the function of that name applied to text
Normalize(name, text) ==
  IF name = "normalizeText" THEN normalizeText(text) ELSE normalizeQuery(text)

InitNorm ==
  /\ InitProgram
  /\ fn \in {[name |-> f, at |-> "call", text |-> x, once |-> NULL, twice |-> NULL] :
              f \in Normalizers, x \in Texts}

\* the function is called on the text
NormalizeOnce ==
  /\ fn.name \in Normalizers /\ fn.at = "call"
  /\ fn' = [fn EXCEPT !.once = Normalize(fn.name, fn.text), !.at = "once"]
  /\ UNCHANGED program

\* the function is called on its own result
NormalizeTwice ==
  /\ fn.name \in Normalizers /\ fn.at = "once"
  /\ fn' = [fn EXCEPT !.twice = Normalize(fn.name, fn.once), !.at = "twice"]
  /\ UNCHANGED program

NextNorm == NormalizeOnce \/ NormalizeTwice

SpecNorm == InitNorm /\ [][NextNorm]_vars

\* ------------------------------- the deterministic matchers on a one-row table
\* queries as the user types them and canonical keys as the writers store
\* them: import-chain-prices keeps case, quotes and dashes, and the web tier
\* stores the name the language model gives
SymQueries == {<<"a", " ", "b">>, <<"a", "-", "b">>, <<"a", "b">>, <<"A", "APOS", "b">>,
               <<"h">>, <<"x">>}
SymKeys == {<<"a", " ", "b">>, <<"a", "-", "b">>, <<"a", "b">>, <<"a", "APOS", "b">>,
            <<"H">>, <<"h", " ", "a", "EMDASH", "b">>, <<"a", " ", "b", " ", "c">>}

\* findDirectMatch when price_lookup holds the one row key: the tier that
\* answers and the key it returns
directOutcome(key, normalized) ==
  IF ilike(key, normalized) THEN [tier |-> "exact", key |-> key]
  ELSE IF BestMatch(normalized, <<key>>) # NULL THEN [tier |-> "fuzzy", key |-> key]
  ELSE [tier |-> "none", key |-> NULL]

\* resolve_query when price_lookup holds the one row key and price_cache is
\* empty: the source and the key it returns, or the error of the fourth query
rpcOutcome(key, q, conflict) ==
  LET nq == rpcNormalize(q)
      words == Words(nq)
  IN  IF ToLower(key) = nq THEN [tier |-> "exact", key |-> key]
      ELSE IF LikeContains(ToLower(key), nq) THEN [tier |-> "partial", key |-> key]
      ELSE IF Len(words) > 0 /\ conflict = "error" THEN [tier |-> "error", key |-> NULL]
      ELSE IF /\ Len(words) > 0 /\ conflict = "use_column"
              /\ \A i \in DOMAIN words : LikeContains(ToLower(key), words[i])
      THEN [tier |-> "words", key |-> key]
      ELSE [tier |-> "fallback", key |-> NULL]

InitSym ==
  /\ InitProgram
  /\ fn \in {[name |-> "match", at |-> "call", query |-> q, key |-> k, conflict |-> c,
               direct |-> <<>>, rpc |-> <<>>] :
                 q \in SymQueries, k \in SymKeys, c \in VariableConflict}

\* both matchers, the table holding the key as it was stored
MatchStored ==
  /\ fn.name = "match" /\ fn.at = "call"
  /\ fn' = [fn EXCEPT !.direct = <<directOutcome(fn.key, normalizeText(fn.query))>>,
                      !.rpc = <<rpcOutcome(fn.key, normalizeText(fn.query), fn.conflict)>>,
                      !.at = "stored"]
  /\ UNCHANGED program

\* both matchers, the table holding the normalized key
MatchNormalized ==
  /\ fn.name = "match" /\ fn.at = "stored"
  /\ fn' = [fn EXCEPT
              !.direct = Append(@, directOutcome(normalizeText(fn.key), normalizeText(fn.query))),
              !.rpc = Append(@, rpcOutcome(normalizeText(fn.key), normalizeText(fn.query),
                                        fn.conflict)),
              !.at = "both"]
  /\ UNCHANGED program

NextSym == MatchStored \/ MatchNormalized

SpecSym == InitSym /\ [][NextSym]_vars

\* ------------------------------------- useShoppingList: the client's list
\* what the user types into the add box
UserTexts == {<<" ", "h", "l", "b", " ">>, <<"x", "x">>, <<" ">>, <<>>}

\* what supabase.rpc('resolve_query') gives resolveQuery: an error or a thrown
\* exception (ok = FALSE), or the JSON object of one of the five returns of
\* the function
RpcReplies ==
  {[ok |-> FALSE, resolved |-> NULL, confidence |-> 0, source |-> "none"],
   [ok |-> TRUE, resolved |-> NULL, confidence |-> 0, source |-> "fallback"]}
  \cup {[ok |-> TRUE, resolved |-> K_MILK, confidence |-> t[1], source |-> t[2]] :
          t \in {<<100, "exact">>, <<95, "cache">>, <<80, "partial">>, <<60, "words">>}}

\* resolveQuery: the reply, or { resolved: null, confidence: 0, source:
\* 'rpc_error' } on an error and in the catch
resolveQuery(reply) ==
  IF reply.ok
  THEN [resolved |-> reply.resolved, confidence |-> reply.confidence, source |-> reply.source]
  ELSE [resolved |-> NULL, confidence |-> 0, source |-> "rpc_error"]

\* an entry that keeps the key of the resolution as it came
canonicalKeyUnchecked(resolveResult, trimmedText) == resolveResult.resolved

\* resolveResult.resolved ?? trimmedText
canonicalKeyOf(resolveResult, trimmedText) ==
  IF resolveResult.resolved = NULL THEN trimmedText ELSE resolveResult.resolved

\* the entry fetchItems and the realtime INSERT handler make of a table row
RowItem(row, src) ==
  [id |-> row.id, userText |-> row.name, canonical_key |-> row.name,
   resolveConfidence |-> 0, resolveSource |-> src, isBought |-> row.bought]

InitList ==
  /\ InitProgram
  /\ fn = [name |-> "useShoppingList", items |-> <<>>, shopping_items |-> <<>>,
           pending |-> <<>>, loaded |-> FALSE, adds |-> 0]

\* addItem up to the optimistic update: a blank text returns at once
AddItem(userText, reply) ==
  /\ fn.name = "useShoppingList" /\ fn.pending = <<>> /\ fn.adds < MaxAdds
  /\ LET trimmedText == Trim(userText)
         resolveResult == resolveQuery(reply)
         tempId == <<"temp", fn.adds + 1>>
         newLocalItem == [id |-> tempId, userText |-> trimmedText,
                          canonical_key |-> canonicalKeyOf(resolveResult, trimmedText),
                          resolveConfidence |-> resolveResult.confidence,
                          resolveSource |-> resolveResult.source, isBought |-> FALSE]
     IN  fn' = IF trimmedText = <<>> THEN [fn EXCEPT !.adds = @ + 1]
               ELSE [fn EXCEPT !.adds = @ + 1, !.items = <<newLocalItem>> \o @,
                               !.pending = <<[tempId |-> tempId, name |-> trimmedText,
                                              insertedData |-> NULL]>>]
  /\ UNCHANGED program

\* addItem, the insert into shopping_items: the table has the row, the
\* response is on its way
InsertItem ==
  /\ fn.name = "useShoppingList" /\ fn.pending # <<>> /\ fn.pending[1].insertedData = NULL
  /\ LET id == <<"row", Len(fn.shopping_items) + 1>> IN
       fn' = [fn EXCEPT
                !.shopping_items = Append(@, [id |-> id, name |-> fn.pending[1].name,
                                              bought |-> FALSE]),
                !.pending = <<[@[1] EXCEPT !.insertedData = id]>>]
  /\ UNCHANGED program

\* addItem, the response of the insert: "Replace temp item with real one"
InsertReturns ==
  /\ fn.name = "useShoppingList" /\ fn.pending # <<>> /\ fn.pending[1].insertedData # NULL
  /\ fn' = [fn EXCEPT
              !.items = [i \in DOMAIN @ |-> IF @[i].id = fn.pending[1].tempId
                                            THEN [@[i] EXCEPT !.id = fn.pending[1].insertedData]
                                            ELSE @[i]],
              !.pending = <<>>]
  /\ UNCHANGED program

\* addItem, the insert fails: the optimistic entry is removed
InsertItemFails ==
  /\ fn.name = "useShoppingList" /\ fn.pending # <<>> /\ fn.pending[1].insertedData = NULL
  /\ fn' = [fn EXCEPT !.items = SelectSeq(@, LAMBDA e : e.id # fn.pending[1].tempId),
                      !.pending = <<>>]
  /\ UNCHANGED program

\* another client's addItem inserts its row
RemoteInsert(userText) ==
  /\ fn.name = "useShoppingList"
  /\ Trim(userText) # <<>>
  /\ Len(fn.shopping_items) < MaxAdds
  /\ fn' = [fn EXCEPT !.shopping_items =
              Append(@, [id |-> <<"row", Len(@) + 1>>, name |-> Trim(userText),
                         bought |-> FALSE])]
  /\ UNCHANGED program

\* a client's toggleBought updates the row
RemoteToggle ==
  /\ fn.name = "useShoppingList"
  /\ \E r \in DOMAIN fn.shopping_items :
       fn' = [fn EXCEPT !.shopping_items[r].bought = ~@]
  /\ UNCHANGED program

\* fetchItems, once after mounting: the list is the rows of the table, the
\* newest first
FetchItems ==
  /\ fn.name = "useShoppingList" /\ ~fn.loaded
  /\ LET n == Len(fn.shopping_items) IN
       fn' = [fn EXCEPT !.items = [i \in 1..n |-> RowItem(fn.shopping_items[n + 1 - i], "prior")],
                        !.loaded = TRUE]
  /\ UNCHANGED program

\* the realtime INSERT event of a row whose id is not in the list
RealtimeInsert ==
  /\ fn.name = "useShoppingList"
  /\ \E r \in DOMAIN fn.shopping_items :
       /\ \A i \in DOMAIN fn.items : fn.items[i].id # fn.shopping_items[r].id
       /\ fn' = [fn EXCEPT !.items = <<RowItem(fn.shopping_items[r], "realtime")>> \o @]
  /\ UNCHANGED program

\* the realtime UPDATE event of a row: the entries with its id take the
\* row's quantity, bought and updated_at
RealtimeUpdate ==
  /\ fn.name = "useShoppingList"
  /\ \E r \in DOMAIN fn.shopping_items :
       fn' = [fn EXCEPT !.items =
                [i \in DOMAIN @ |-> IF @[i].id = fn.shopping_items[r].id
                                    THEN [@[i] EXCEPT !.isBought = fn.shopping_items[r].bought]
                                    ELSE @[i]]]
  /\ UNCHANGED program

NextList ==
  \/ \E userText \in UserTexts, reply \in RpcReplies : AddItem(userText, reply)
  \/ InsertItem
  \/ InsertReturns
  \/ InsertItemFails
  \/ \E userText \in UserTexts : RemoteInsert(userText)
  \/ FetchItems
  \/ RealtimeInsert

SpecList == InitList /\ [][NextList]_vars

\* the list of one client with the UPDATE events, for one text the user adds
\* and the two kinds of reply: a resolved key and none
RowTexts == {<<"x", "x">>}
RowReplies == {r \in RpcReplies : r.ok /\ r.source \in {"exact", "fallback"}}

NextRows ==
  \/ \E userText \in RowTexts, reply \in RowReplies : AddItem(userText, reply)
  \/ InsertItem
  \/ InsertReturns
  \/ InsertItemFails
  \/ RemoteToggle
  \/ FetchItems
  \/ RealtimeInsert
  \/ RealtimeUpdate

SpecRows == InitList /\ [][NextRows]_vars

\* ------------------------------------ resolve_query over tables with rows
\* the text the client sends: a name with a percent sign, a name in another
\* case, two words
RpcQueries == {Q_MILK_3, <<"H", "l", "b", " ">>, <<"z", "i", "t", " ", " ", "h", "l", "b">>}

\* canonical keys of price_lookup
RpcKeys == {K_MILK, K_MILK_3, <<"h", "l", "b", " ", "3", "0">>,
            <<"3", "%", " ", "h", "l", "b">>, <<"h", "l", "b", " ", "z", "i", "t">>}

\* price_lookup with up to two rows
RpcLookups ==
  {[k \in S |-> [avg_price_ils |-> 7, sample_count |-> 1]] :
     S \in {T \in SUBSET RpcKeys : Cardinality(T) <= 2}}

\* price_cache: empty, or one row for the query "hlb 3%", with a key or
\* negative
RpcCaches ==
  {<<>>} \cup {CacheUpsert(<<>>, Q_MILK_3, k, 7, 100, 1, 0) : k \in {K_OLIVE, NULL}}

\* the tables hold rows, no request in progress
InitRpc ==
  /\ now = 0
  /\ price_lookup \in RpcLookups
  /\ chain_prices = <<>>
  /\ price_cache \in RpcCaches
  /\ pc = "idle"
  /\ op = "none"
  /\ query = NULL
  /\ normalizedQuery = NULL
  /\ cached = <<>>
  /\ directMatch = <<>>
  /\ aiMatch = <<>>
  /\ faults = {}
  /\ matchedPrice = <<>>
  /\ priceData = <<>>
  /\ smartData = NoSmartData
  /\ response = <<>>
  /\ calls = <<>>
  /\ cacheReadAt = NullNum
  /\ atStart = [exact |-> {}, match |-> FALSE]
  /\ resolves = 0
  /\ imports = 0
  /\ fn = NoCall

NextRpc == \E q \in RpcQueries : ResolveQueryRpc(q)

SpecRpc == InitRpc /\ [][NextRpc]_vars

\* ------------------------------------------ priceUtils: calculateChainTotals
\* the canonical keys of the entries of the list; the second needs its trim
TotalKeys == {K_MILK, K_MILK \o <<" ">>, K_OLIVE}

TotalEntries == [canonical_key : TotalKeys, quantity : {1, 2}, isBought : BOOLEAN]

\* the lists of up to MaxAdds entries
TotalLists == UNION {[1..n -> TotalEntries] : n \in 0..MaxAdds}

\* chain_prices: empty, one key at two chains for the same price, two keys
\* at two chains, two keys at one chain each
ChainTables ==
  {<<>>,
   Put(Put(<<>>, <<K_MILK, "shufersal">>, 5), <<K_MILK, "rami">>, 5),
   Put(Put(Put(<<>>, <<K_MILK, "shufersal">>, 7), <<K_OLIVE, "shufersal">>, 5),
       <<K_OLIVE, "rami">>, 9),
   Put(Put(<<>>, <<K_MILK, "rami">>, 5), <<K_OLIVE, "shufersal">>, 7)}

InitTotals ==
  /\ now = 0
  /\ price_lookup = <<>>
  /\ chain_prices \in ChainTables
  /\ price_cache = <<>>
  /\ pc = "idle"
  /\ op = "none"
  /\ query = NULL
  /\ normalizedQuery = NULL
  /\ cached = <<>>
  /\ directMatch = <<>>
  /\ aiMatch = <<>>
  /\ faults = {}
  /\ matchedPrice = <<>>
  /\ priceData = <<>>
  /\ smartData = NoSmartData
  /\ response = <<>>
  /\ calls = <<>>
  /\ cacheReadAt = NullNum
  /\ atStart = [exact |-> {}, match |-> FALSE]
  /\ resolves = 0
  /\ imports = 0
  /\ fn \in {[name |-> "calculateChainTotals", at |-> "call", items |-> l, failed |-> FALSE,
              chainPrices |-> <<>>, totals |-> <<>>] : l \in TotalLists}

\* a list with every entry, bought or not
everyItem(items) == items

\* items.filter(i => !i.isBought)
unboughtItems(items) == SelectSeq(items, LAMBDA i : ~i.isBought)

\* the orders in which a select without ORDER BY can return the rows
RowOrders(rows) ==
  {[i \in DOMAIN s |-> [canonical_key |-> s[i][1], chain_name |-> s[i][2],
                        price_ils |-> chain_prices[s[i]]]] :
     s \in {t \in [1..Cardinality(rows) -> rows] :
              \A i, j \in 1..Cardinality(rows) : t[i] = t[j] => i = j}}

\* unboughtItems.forEach(item => priceMap.get(item.canonical_key.trim())
\* ?.forEach((price, chainName) => ...)): the chains visited, in order, with
\* price * item.quantity
RECURSIVE Visits(_, _)
Visits(items, chainPrices) ==
  IF items = <<>> THEN <<>>
  ELSE LET itemPrices == SelectSeq(chainPrices,
                                   LAMBDA r : r.canonical_key = Trim(Head(items).canonical_key))
       IN  [j \in DOMAIN itemPrices |->
              [chainName |-> itemPrices[j].chain_name,
               amount |-> itemPrices[j].price_ils * Head(items).quantity]]
           \o Visits(Tail(items), chainPrices)

\* chainTotalMap after the visits, in the order in which the chains entered it
RECURSIVE Accumulate(_, _)
Accumulate(visits, chainTotalMap) ==
  IF visits = <<>> THEN chainTotalMap
  ELSE LET v == Head(visits)
           at == {i \in DOMAIN chainTotalMap : chainTotalMap[i].chainName = v.chainName}
       IN  Accumulate(Tail(visits),
             IF at = {}
             THEN Append(chainTotalMap,
                         [chainName |-> v.chainName, total |-> v.amount, itemsMatched |-> 1])
             ELSE [chainTotalMap EXCEPT ![CHOOSE i \in at : TRUE] =
                     [@ EXCEPT !.total = @ + v.amount, !.itemsMatched = @ + 1]])

\* .sort((a, b) => a.total - b.total): ascending, the first of equal totals
\* stays first
RECURSIVE SortByTotal(_)
SortByTotal(totals) ==
  IF totals = <<>> THEN <<>>
  ELSE LET m == CHOOSE i \in DOMAIN totals :
                  /\ \A j \in DOMAIN totals : totals[i].total <= totals[j].total
                  /\ \A j \in 1..(i - 1) : totals[j].total > totals[i].total
       IN  <<totals[m]>> \o SortByTotal(SubSeq(totals, 1, m - 1)
                                        \o SubSeq(totals, m + 1, Len(totals)))

\* calculateChainTotals up to the rows of fetchChainPricesForKeys: [] at once
\* for a list without an unbought entry; the read gives the rows of the keys
\* in some order, or [] after an error
CalculateFetch ==
  /\ fn.name = "calculateChainTotals" /\ fn.at = "call"
  /\ LET unbought == unboughtItems(fn.items)
         canonicalKeys == {Trim(unbought[i].canonical_key) : i \in DOMAIN unbought}
     IN  IF unbought = <<>>
         THEN fn' = [fn EXCEPT !.at = "returned"]
         ELSE \/ \E data \in RowOrders(fetchChainPricesForKeys(canonicalKeys)) :
                   fn' = [fn EXCEPT !.at = "fetched", !.chainPrices = data]
              \/ fn' = [fn EXCEPT !.at = "fetched", !.failed = TRUE]
  /\ UNCHANGED program

\* the totals per chain, sorted
CalculateReturn ==
  /\ fn.name = "calculateChainTotals" /\ fn.at = "fetched"
  /\ fn' = [fn EXCEPT !.at = "returned",
                      !.totals = SortByTotal(Accumulate(Visits(unboughtItems(fn.items),
                                                               fn.chainPrices), <<>>))]
  /\ UNCHANGED program

NextTotals == CalculateFetch \/ CalculateReturn

SpecTotals == InitTotals /\ [][NextTotals]_vars

\* ------------------------------------------------ useOfflineSync: the queue
\* The pending actions are numbered in the order of their timestamps.
\* fn.queue is the pendingSync store, fn.remote the actions applied to
\* shopping_items, fn.runs the calls of syncToCloud that got past the guard.
InitSync ==
  /\ InitProgram
  /\ fn = [name |-> "useOfflineSync", isOnline |-> TRUE, wasOffline |-> FALSE,
           syncInProgress |-> FALSE, queue |-> {}, table |-> <<>>, remote |-> {},
           calls |-> <<>>, runs |-> <<>>]

\* the exit paths of syncToCloud: the empty queue, the end of the loop, the
\* outer catch
Exits == {"empty", "completed", "exception"}

\* index('timestamp').getAll(): the actions by ascending timestamp
RECURSIVE ByTimestamp(_)
ByTimestamp(actions) ==
  IF actions = {} THEN <<>>
  ELSE LET a == CHOOSE x \in actions : \A y \in actions : x <= y
       IN  <<a>> \o ByTimestamp(actions \ {a})

\* PendingSyncAction.table is a string
Tables == {"shopping_items", "price_cache"}

\* addPendingSync: an action joins the queue with the timestamp of the call
AddPendingSync(table) ==
  /\ fn.name = "useOfflineSync" /\ Len(fn.table) < MaxActions
  /\ fn' = [fn EXCEPT !.table = Append(@, table), !.queue = @ \cup {Len(fn.table) + 1}]
  /\ UNCHANGED program

\* useNetworkStatus: the connection is lost
GoOffline ==
  /\ fn.name = "useOfflineSync" /\ fn.isOnline
  /\ fn' = [fn EXCEPT !.isOnline = FALSE, !.wasOffline = TRUE]
  /\ UNCHANGED program

\* useNetworkStatus: the connection is back
GoOnline ==
  /\ fn.name = "useOfflineSync" /\ ~fn.isOnline
  /\ fn' = [fn EXCEPT !.isOnline = TRUE]
  /\ UNCHANGED program

\* a call that starts a run whatever the flag says
SyncToCloudUnguarded ==
  /\ fn.name = "useOfflineSync" /\ Len(fn.calls) < MaxSyncs
  /\ fn' = IF ~fn.isOnline
           THEN [fn EXCEPT !.calls = Append(@, "offline")]
           ELSE [fn EXCEPT !.calls = Append(@, "run"), !.syncInProgress = TRUE,
                           !.runs = Append(@, [at |-> "read", pendingActions |-> <<>>,
                                               tried |-> <<>>, failed |-> {}])]
  /\ UNCHANGED program

\* syncToCloud, called by the effect after a reconnect or by hand: it returns
\* at once when offline or when a run is in progress, else it sets the flag
SyncToCloud ==
  /\ fn.name = "useOfflineSync" /\ Len(fn.calls) < MaxSyncs
  /\ fn' = IF ~fn.isOnline \/ fn.syncInProgress
           THEN [fn EXCEPT !.calls = Append(@, IF ~fn.isOnline THEN "offline" ELSE "busy")]
           ELSE [fn EXCEPT !.calls = Append(@, "run"), !.syncInProgress = TRUE,
                           !.runs = Append(@, [at |-> "read", pendingActions |-> <<>>,
                                               tried |-> <<>>, failed |-> {}])]
  /\ UNCHANGED program

\* getAllPendingSync: an empty queue ends the run
ReadPending(r) ==
  /\ fn.name = "useOfflineSync" /\ r \in DOMAIN fn.runs /\ fn.runs[r].at = "read"
  /\ fn' = IF fn.queue = {}
           THEN [fn EXCEPT !.syncInProgress = FALSE, !.runs[r].at = "empty"]
           ELSE [fn EXCEPT !.runs[r].at = "process",
                           !.runs[r].pendingActions = ByTimestamp(fn.queue)]
  /\ UNCHANGED program

\* getAllPendingSync rejects: catch, finally
ReadPendingFails(r) ==
  /\ fn.name = "useOfflineSync" /\ r \in DOMAIN fn.runs /\ fn.runs[r].at = "read"
  /\ fn' = [fn EXCEPT !.syncInProgress = FALSE, !.runs[r].at = "exception"]
  /\ UNCHANGED program

\* the action the loop of run r is at
Current(r) == fn.runs[r].pendingActions[Len(fn.runs[r].tried) + 1]

\* the loop goes on with the next action, or is over
AfterAction(r) ==
  IF Len(fn.runs[r].tried) + 1 = Len(fn.runs[r].pendingActions) THEN "finish" ELSE "process"

\* processAction returns: an action on shopping_items is in the remote table,
\* an action on another table was left alone
ProcessAction(r) ==
  /\ fn.name = "useOfflineSync" /\ r \in DOMAIN fn.runs /\ fn.runs[r].at = "process"
  /\ fn' = IF fn.table[Current(r)] # "shopping_items"
           THEN [fn EXCEPT !.runs[r].at = "remove"]
           ELSE [fn EXCEPT !.remote = @ \cup {Current(r)}, !.runs[r].at = "remove"]
  /\ UNCHANGED program

\* a loop that drops the action that failed
ProcessActionFailsDrops(r) ==
  /\ fn.name = "useOfflineSync" /\ r \in DOMAIN fn.runs /\ fn.runs[r].at = "process"
  /\ fn.table[Current(r)] = "shopping_items"
  /\ fn' = [fn EXCEPT !.queue = @ \ {Current(r)},
                      !.runs[r].tried = Append(@, Current(r)),
                      !.runs[r].failed = @ \cup {Current(r)},
                      !.runs[r].at = AfterAction(r)]
  /\ UNCHANGED program

\* the request of processAction returns an error: "Continue with next action"
ProcessActionFails(r) ==
  /\ fn.name = "useOfflineSync" /\ r \in DOMAIN fn.runs /\ fn.runs[r].at = "process"
  /\ fn.table[Current(r)] = "shopping_items"
  /\ fn' = [fn EXCEPT !.runs[r].tried = Append(@, Current(r)),
                      !.runs[r].failed = @ \cup {Current(r)},
                      !.runs[r].at = AfterAction(r)]
  /\ UNCHANGED program

\* removePendingSync(action.id)
RemovePending(r) ==
  /\ fn.name = "useOfflineSync" /\ r \in DOMAIN fn.runs /\ fn.runs[r].at = "remove"
  /\ fn' = [fn EXCEPT !.queue = @ \ {Current(r)},
                      !.runs[r].tried = Append(@, Current(r)),
                      !.runs[r].at = AfterAction(r)]
  /\ UNCHANGED program

\* removePendingSync rejects: the same catch, the action stays
RemovePendingFails(r) ==
  /\ fn.name = "useOfflineSync" /\ r \in DOMAIN fn.runs /\ fn.runs[r].at = "remove"
  /\ fn' = [fn EXCEPT !.runs[r].tried = Append(@, Current(r)),
                      !.runs[r].failed = @ \cup {Current(r)},
                      !.runs[r].at = AfterAction(r)]
  /\ UNCHANGED program

\* after the loop: clearWasOffline(), finally
FinishSync(r) ==
  /\ fn.name = "useOfflineSync" /\ r \in DOMAIN fn.runs /\ fn.runs[r].at = "finish"
  /\ fn' = [fn EXCEPT !.wasOffline = FALSE, !.syncInProgress = FALSE,
                      !.runs[r].at = "completed"]
  /\ UNCHANGED program

NextSync ==
  \/ \E table \in Tables : AddPendingSync(table)
  \/ GoOffline
  \/ GoOnline
  \/ SyncToCloud
  \/ \E r \in 1..MaxSyncs : ReadPending(r)
  \/ \E r \in 1..MaxSyncs : ReadPendingFails(r)
  \/ \E r \in 1..MaxSyncs : ProcessAction(r)
  \/ \E r \in 1..MaxSyncs : ProcessActionFails(r)
  \/ \E r \in 1..MaxSyncs : RemovePending(r)
  \/ \E r \in 1..MaxSyncs : RemovePendingFails(r)
  \/ \E r \in 1..MaxSyncs : FinishSync(r)

SpecSync == InitSync /\ [][NextSync]_vars

\* --------------------------------- useShoppingList: the prices of the entries
\* the canonical keys of the entries the user adds; the first two have the
\* same normalized form and the last has an empty one
PriceKeys == {<<"h", "l", "b">>, <<"H", "l", "b", " ">>, <<"z", "i", "t">>, <<"APOS">>}

\* result.avgPriceIls ?? null of an OK response
AvgPrices == {7, NullNum}

InitPrices ==
  /\ InitProgram
  /\ fn = [name |-> "fetchPrice", items |-> <<>>, priceCache |-> <<>>, pending |-> {},
           calls |-> <<>>]

\* setItems(prev => prev.map(item => item.id === id ? { ...item,
\* priceEstimateIls: price } : item)) when price !== null
SetPrice(items, id, price) ==
  IF price = NullNum THEN items
  ELSE [i \in DOMAIN items |-> IF items[i].id = id
                               THEN [items[i] EXCEPT !.priceEstimateIls = price]
                               ELSE items[i]]

\* addItem: the optimistic entry, then fetchPrice(canonicalKey) up to its
\* await: null for an empty key, the cached price, null when the key is
\* being fetched, or the request goes out
AddItemFetch(canonicalKey) ==
  /\ fn.name = "fetchPrice" /\ Len(fn.calls) < MaxAdds
  /\ LET tempId == <<"temp", Len(fn.calls) + 1>>
         normalized == normalizeQuery(canonicalKey)
         items == <<[id |-> tempId, canonical_key |-> canonicalKey,
                     priceEstimateIls |-> NullNum]>> \o fn.items
         call == [tempId |-> tempId, canonicalKey |-> canonicalKey, at |-> "returned",
                  result |-> NullNum]
     IN  fn' = IF normalized = <<>>
               THEN [fn EXCEPT !.items = items, !.calls = Append(@, call)]
               ELSE IF normalized \in DOMAIN fn.priceCache
               THEN [fn EXCEPT !.items = SetPrice(items, tempId, fn.priceCache[normalized]),
                               !.calls = Append(@, [call EXCEPT
                                                      !.result = fn.priceCache[normalized]])]
               ELSE IF normalized \in fn.pending
               THEN [fn EXCEPT !.items = items, !.calls = Append(@, call)]
               ELSE [fn EXCEPT !.items = items, !.pending = @ \cup {normalized},
                               !.calls = Append(@, [call EXCEPT !.at = "fetch"])]
  /\ UNCHANGED program

\* fetchPrice, an OK response: the entry of the local cache, finally, and the
\* then of addItem, which looks for the entry by its temporary id
FetchPriceOk(c, avgPriceIls) ==
  /\ fn.name = "fetchPrice" /\ c \in DOMAIN fn.calls /\ fn.calls[c].at = "fetch"
  /\ LET normalized == normalizeQuery(fn.calls[c].canonicalKey) IN
       fn' = [fn EXCEPT !.priceCache = Put(@, normalized, avgPriceIls),
                        !.pending = @ \ {normalized},
                        !.calls[c] = [@ EXCEPT !.at = "returned", !.result = avgPriceIls],
                        !.items = SetPrice(@, fn.calls[c].tempId, avgPriceIls)]
  /\ UNCHANGED program

\* fetchPrice, a response that is not OK or an exception: null, finally
FetchPriceFails(c) ==
  /\ fn.name = "fetchPrice" /\ c \in DOMAIN fn.calls /\ fn.calls[c].at = "fetch"
  /\ fn' = [fn EXCEPT !.pending = @ \ {normalizeQuery(fn.calls[c].canonicalKey)},
                      !.calls[c] = [@ EXCEPT !.at = "returned"]]
  /\ UNCHANGED program

\* addItem, the response of the insert: the entry takes the id of the row
ReplaceTempId(c) ==
  /\ fn.name = "fetchPrice" /\ c \in DOMAIN fn.calls
  /\ \E i \in DOMAIN fn.items : fn.items[i].id = fn.calls[c].tempId
  /\ fn' = [fn EXCEPT !.items = [i \in DOMAIN @ |-> IF @[i].id = fn.calls[c].tempId
                                                    THEN [@[i] EXCEPT !.id = <<"row", c>>]
                                                    ELSE @[i]]]
  /\ UNCHANGED program

NextPrices ==
  \/ \E k \in PriceKeys : AddItemFetch(k)
  \/ \E c \in 1..MaxAdds, p \in AvgPrices : FetchPriceOk(c, p)
  \/ \E c \in 1..MaxAdds : FetchPriceFails(c)
  \/ \E c \in 1..MaxAdds : ReplaceTempId(c)

SpecPrices == InitPrices /\ [][NextPrices]_vars

\* ------------------------------- two requests for the same query at once
\* Each request runs in its own invocation of the handler.  The variables of
\* the handler hold the request that takes the next step; fn.other holds the
\* other request, and Switch exchanges the two.
Self ==
  [pc |-> pc, op |-> op, query |-> query, normalizedQuery |-> normalizedQuery,
   cached |-> cached, directMatch |-> directMatch, aiMatch |-> aiMatch, faults |-> faults,
   matchedPrice |-> matchedPrice, priceData |-> priceData, smartData |-> smartData,
   response |-> response, calls |-> calls, cacheReadAt |-> cacheReadAt, atStart |-> atStart]

\* a request that has not arrived
IdleRequest ==
  [pc |-> "idle", op |-> "none", query |-> NULL, normalizedQuery |-> NULL, cached |-> <<>>,
   directMatch |-> <<>>, aiMatch |-> <<>>, faults |-> {}, matchedPrice |-> <<>>,
   priceData |-> <<>>, smartData |-> NoSmartData, response |-> <<>>, calls |-> <<>>,
   cacheReadAt |-> NullNum, atStart |-> [exact |-> {}, match |-> FALSE]]

InitRace ==
  /\ InitProgram
  /\ fn \in {[name |-> "race", query |-> q, other |-> IdleRequest] : q \in Queries}

\* the tables are filled before the requests arrive
RaceImport(name, price) == resolves = 0 /\ ImportLookup(name, price)

\* one of the two requests arrives
RaceStart == fn.name = "race" /\ pc = "idle" /\ Start(fn.query)

\* the next step is the other request's, which has steps left to take
Switch ==
  /\ fn.name = "race"
  /\ fn.other.pc # "done"
  /\ pc' = fn.other.pc
  /\ op' = fn.other.op
  /\ query' = fn.other.query
  /\ normalizedQuery' = fn.other.normalizedQuery
  /\ cached' = fn.other.cached
  /\ directMatch' = fn.other.directMatch
  /\ aiMatch' = fn.other.aiMatch
  /\ faults' = fn.other.faults
  /\ matchedPrice' = fn.other.matchedPrice
  /\ priceData' = fn.other.priceData
  /\ smartData' = fn.other.smartData
  /\ response' = fn.other.response
  /\ calls' = fn.other.calls
  /\ cacheReadAt' = fn.other.cacheReadAt
  /\ atStart' = fn.other.atStart
  /\ fn' = [fn EXCEPT !.other = Self]
  /\ UNCHANGED <<now, store, resolves, imports>>

\* a step of the request whose turn it is
RaceStep == RaceStart \/ HandlerStep

NextRace ==
  \/ RaceStep
  \/ Switch
  \/ \E k \in ImportKeys, p \in ImportPrices : RaceImport(k, p)

SpecRace == InitRace /\ [][NextRace]_vars

\* ================================================================ claims
HandlerDone == op = "national-average" /\ pc = "done"

\* the request read a live negative entry
ReadNegative == cached # <<>> /\ cached[1].canonical_key = NULL

\* the tiers the request invoked
Tiers == {calls[i].tier : i \in DOMAIN calls}

TierOrder == <<"cache", "exact", "fuzzy", "semantic", "web">>

\* C1: a resolve that reads a live negative entry for Q while price_lookup
\* holds a product matching Q answers with a matching product and its price,
\* not with the negative, and leaves that product's key in the entry for Q.
C1_NegativeRevalidated ==
  (HandlerDone /\ ReadNegative /\ atStart.match) =>
    /\ response[1].canonicalKey # NULL
    /\ response[1].avgPriceIls # NullNum
    /\ ~response[1].cached
    /\ response[1].canonicalKey \in MatchingKeys(price_lookup, normalizedQuery)
    /\ normalizedQuery \in DOMAIN price_cache
    /\ price_cache[normalizedQuery].canonical_key = response[1].canonicalKey

C1_Witness ==
  /\ HandlerDone /\ ReadNegative /\ atStart.match
  /\ response[1].canonicalKey # NULL

\* C2: every resolve that was not answered from the cache has left an entry
\* under the normalized query when it returns.
C2_EveryOutcomeCached ==
  (HandlerDone /\ ~response[1].cached) => normalizedQuery \in DOMAIN price_cache

\* C3: when a canonical key equals the normalized query but for letter case
\* and the resolve gets past the cache, it returns that key with confidence
\* 1.0 and invokes neither the fuzzy scan nor the semantic or the web tier.
C3_ExactShortCircuits ==
  (HandlerDone /\ atStart.exact # {} /\ ~response[1].cached) =>
    /\ response[1].canonicalKey \in atStart.exact
    /\ response[1].confidence = 100
    /\ Tiers \cap {"fuzzy", "semantic", "web"} = {}

\* C4: the tiers of a resolve run in the order cache, exact, fuzzy, semantic,
\* web, each after the earlier ones came back without a hit and each at most
\* once; a hit is the last tier of the resolve.
C4_TiersInOrder ==
  /\ Len(calls) <= Len(TierOrder)
  /\ \A i \in DOMAIN calls :
       /\ calls[i].tier = TierOrder[i]
       /\ calls[i].hit => i = Len(calls)
  /\ (calls # <<>> /\ calls[Len(calls)].hit) =>
       pc \in {"matched", "lookup", "save_ai", "done"}

C4_Witness ==
  /\ HandlerDone
  /\ Len(calls) = 5
  /\ \E i \in DOMAIN calls : calls[i].hit

\* C5: a semantic match below the floor is never the answer: the resolve goes
\* on to the web tier and answers with the web result or with not-found.
C5_FloorEnforced ==
  (op = "national-average" /\ aiMatch # <<>> /\ aiMatch[1].confidence < AI_FLOOR) =>
    /\ pc \notin {"lookup", "save_ai"}
    /\ matchedPrice = <<>>
    /\ pc = "done" =>
         /\ "web" \in Tiers
         /\ \/ response = NotFound
            \/ /\ response[1].source = "web"
               /\ response[1].canonicalKey = smartData.canonicalName

C5_Witness ==
  /\ HandlerDone
  /\ aiMatch # <<>> /\ aiMatch[1].confidence < AI_FLOOR
  /\ response[1].source = "web"

\* C6: with the generic key for milk in price_lookup and no coconut key, the
\* query for coconut milk is never resolved to the generic key.
C6_CoconutMilkIsNotMilk ==
  (/\ HandlerDone
   /\ normalizedQuery = Q_COCONUT_MILK
   /\ \A k \in DOMAIN price_lookup : ~includes(k, qoqos)) =>
    response[1].canonicalKey # K_MILK

\* C7: a resolve that reads a live entry and finds nothing new in the recheck
\* answers from the cache with the stored canonicalKey, confidence and price.
C7_CacheRoundTrip ==
  (HandlerDone /\ cached # <<>> /\ directMatch = <<>>) =>
    /\ response[1].cached
    /\ response[1].canonicalKey = cached[1].canonical_key
    /\ response[1].confidence = cached[1].confidence
    /\ response[1].avgPriceIls = cached[1].avg_price_ils

\* C8: no reader answers from a cache entry that had expired when it read it.
C8_NoExpiredHit ==
  (pc = "done" /\ cacheReadAt # NullNum) => cached[1].expires_at > cacheReadAt

\* C9: every write of a cache row leaves it with cachedAt = the time of the
\* write and expiresAt = cachedAt + 30 days.
C9_WriteStampsEntry ==
  [][\A q \in DOMAIN price_cache' :
       (q \notin DOMAIN price_cache \/ price_cache'[q] # price_cache[q]) =>
         /\ price_cache'[q].cached_at = now
         /\ price_cache'[q].expires_at = now + TTL_DAYS]_vars

\* C10: a resolve that reads a live negative entry and finds no match in the
\* recheck answers with the cached negative and invokes neither the semantic
\* matcher nor the web fetcher.
C10_NegativeNotRerun ==
  (HandlerDone /\ ReadNegative /\ directMatch = <<>>) =>
    /\ response[1].cached
    /\ response[1].canonicalKey = NULL
    /\ response[1].avgPriceIls = NullNum
    /\ Tiers = {"cache", "exact", "fuzzy"}

C10_Witness ==
  /\ HandlerDone /\ ReadNegative /\ directMatch = <<>>
  /\ response[1].cached


\* the failed store calls of the handler
StoreFaults == {"cache_read", "exact_read", "scan_read", "keys_read", "matched_read",
                "cache_write"}

\* the failed steps of smart-price-lookup before its stores
WebFaults == {"web_search", "web_extract"}

NoHit == \A i \in DOMAIN calls : ~calls[i].hit

C13_AiFailureIsNoResult ==
  (op = "national-average" /\ "match_with_ai" \in faults) =>
    /\ aiMatch = <<>>
    /\ matchedPrice = <<>>
    /\ pc \in {"web_search", "web_extract", "web_lookup", "web_chains", "web_cache",
               "after_web", "save_negative", "done"}
    /\ pc # "web_search" => "web" \in Tiers
    /\ pc = "done" =>
         /\ response[1].status = 200
         /\ response[1].source \in {"web", "none"}

C13_Witness ==
  /\ HandlerDone
  /\ "match_with_ai" \in faults
  /\ "web" \in Tiers


\* C14: after a resolve answered by the web tier, price_cache holds under the
\* normalized query an entry with the fetched canonical key.
C14_WebResultCached ==
  (HandlerDone /\ response[1].source = "web") =>
    /\ normalizedQuery \in DOMAIN price_cache
    /\ price_cache[normalizedQuery].canonical_key = response[1].canonicalKey

\* C15: the web fetcher has answered found = true, after its writes, only for
\* an extracted record with found = true and a numeric confidence >= 0.5.
C15_GateBeforeWrites ==
  (/\ op = "national-average"
   /\ pc \in {"after_web", "done"}
   /\ smartData.found) =>
    /\ priceData[1].found
    /\ priceData[1].confidence # Undefined
    /\ priceData[1].confidence >= WEB_FLOOR

\* C16: when the extracted record has a chain price, no read finds the row
\* the fetcher wrote to price_lookup together with no chain_prices row of its
\* key, nor chain_prices rows of the key without the price_lookup row.
C16_LookupAndChainsTogether ==
  (op = "national-average" /\ priceData # <<>> /\ chainEntries # {}) =>
    /\ (/\ canonicalName \in DOMAIN price_lookup
        /\ price_lookup[canonicalName].avg_price_ils = priceData[1].avgPrice) =>
         fetchChainPricesForKeys({canonicalName}) # {}
    /\ fetchChainPricesForKeys({canonicalName}) # {} => canonicalName \in DOMAIN price_lookup

\* C17: a resolve that found price_lookup empty has tried the web tier before
\* it answers.
C17_EmptySetTriesWeb ==
  (HandlerDone /\ DOMAIN price_lookup = {}) => "web" \in Tiers


\* the rules of the fuzzy score as the specification words them, for a
\* normalized query q and a normalized key k
ClaimedWordOverlap(q, k) ==
  Cardinality({i \in DOMAIN Words(q) :
                 \E j \in DOMAIN Words(k) :
                    includes(Words(k)[j], Words(q)[i]) \/ includes(Words(q)[i], Words(k)[j])})

ClaimedScore(q, k) ==
  IF k = q THEN <<1000, 1>>
  ELSE IF includes(k, q) THEN <<100 * Len(k) + 50, Len(k)>>
  ELSE IF includes(q, k) THEN <<80 * Len(k) + 40, Len(k)>>
  ELSE <<60 * ClaimedWordOverlap(q, k), Len(Words(q))>>

\* equality of two scores as numbers
SameScore(x, y) == ~ScoreGreater(x, y) /\ ~ScoreGreater(y, x)

Scored == fn.name = "findDirectMatch" /\ fn.at \in {"sort", "returned"}
Returned == fn.name = "findDirectMatch" /\ fn.at = "returned"

\* C18: the score of every candidate is the value of the first rule that
\* applies: 1000, 100 + 50/len(k), 80 + 40/len(k), 60 * overlap / words, or 0.
C18_ScoreRules ==
  Scored =>
    \A i \in DOMAIN fn.allItems :
      SameScore(fn.scores[i], ClaimedScore(fn.normalized, normalizeText(fn.allItems[i])))

C18_Witness ==
  /\ Scored
  /\ Len(fn.allItems) = MaxItems
  /\ \E i, j, k \in DOMAIN fn.allItems :
       /\ includes(normalizeText(fn.allItems[i]), fn.normalized)
       /\ normalizeText(fn.allItems[i]) # fn.normalized
       /\ includes(fn.normalized, normalizeText(fn.allItems[j]))
       /\ normalizeText(fn.allItems[j]) # fn.normalized
       /\ SameScore(fn.scores[k], <<60, 1>>)

\* C19: the scan returns a candidate of maximal score when that score is > 0,
\* the first such candidate in the order of the rows, and null when every
\* candidate scores 0.
C19_BestFirst ==
  Returned =>
    IF \A i \in DOMAIN fn.allItems : ~ScorePositive(fn.scores[i])
    THEN fn.result = NULL
    ELSE \E i \in DOMAIN fn.allItems :
           /\ fn.result = fn.allItems[i]
           /\ ScorePositive(fn.scores[i])
           /\ \A j \in DOMAIN fn.allItems : ~ScoreGreater(fn.scores[j], fn.scores[i])
           /\ \A j \in 1..(i - 1) : ScoreGreater(fn.scores[i], fn.scores[j])

C19_Witness ==
  /\ Returned
  /\ \E i, j \in DOMAIN fn.allItems :
       /\ i < j
       /\ fn.result = fn.allItems[i]
       /\ SameScore(fn.scores[i], fn.scores[j])

\* the candidates that contain the query and are not equal to it
Containing == {i \in DOMAIN fn.allItems :
                 /\ includes(normalizeText(fn.allItems[i]), fn.normalized)
                 /\ normalizeText(fn.allItems[i]) # fn.normalized}

NormLen(i) == Len(normalizeText(fn.allItems[i]))

NoExactKey == \A i \in DOMAIN fn.allItems : normalizeText(fn.allItems[i]) # fn.normalized

C21_NormalizeIdempotent ==
  (fn.name \in Normalizers /\ fn.at = "twice") => fn.twice = fn.once

C21_Witness ==
  /\ fn.name \in Normalizers /\ fn.at = "twice"
  /\ fn.once # fn.text
  /\ fn.once # <<>>
  /\ \E i \in DOMAIN fn.text : fn.text[i] \in QuoteChars \cup DashChars


\* one character for each kind of character that the claim holds equal
Variant(c) ==
  IF c \in QuoteChars \cup {"GERESH"} THEN "APOS"
  ELSE IF c \in DashChars THEN "-"
  ELSE IF c \in WhiteSpace THEN " "
  ELSE LowerChar(c)

\* the two texts differ only in the variant of a quote or of a dash, in letter
\* case, or in the length of a run of white space
SameButVariants(x, y) ==
  CollapseSpaces([i \in DOMAIN x |-> Variant(x[i])]) =
    CollapseSpaces([i \in DOMAIN y |-> Variant(y[i])])

\* C23: texts that differ only in the quote or apostrophe variant (the Hebrew
\* geresh and gershayim included), in letter case, in the dash variant or in
\* runs of white space normalize to the same string, and the normalized key
\* of the cottage cheese scenario is the first word of its normalized query.
C23_VariantsNormalizeAlike ==
  (fn.name = "normalizeText" /\ fn.at = "once") =>
    /\ \A y \in Texts : SameButVariants(fn.text, y) => normalizeText(y) = fn.once
    /\ fn.text = Q_COTTAGE => Words(fn.once)[1] = normalizeText(K_COTTAGE)


\* the two outcomes agree: both without a match, or both with a match in the
\* same tier whose keys are equal once normalized
SameOutcome(o) ==
  /\ o[1].tier = o[2].tier
  /\ (o[1].key = NULL) = (o[2].key = NULL)
  /\ o[1].key # NULL => normalizeText(o[1].key) = normalizeText(o[2].key)

\* C22: matching the normalized query against a stored key gives the same
\* outcome (match or not, matched key, tier) as matching it against the
\* normalized key, in findDirectMatch (exact lookup and scan) and in
\* resolve_query.
C22_SymmetricMatching ==
  (fn.name = "match" /\ fn.at = "both") => (SameOutcome(fn.direct) /\ SameOutcome(fn.rpc))


\* a confidence between 0 and 1
InRange(c) == c \in 0..100

\* C24: a confidence of the language model that is not a number or is outside
\* [0, 1] counts as 0: no such answer is accepted as the match, and every
\* confidence in a response or in price_cache is in [0, 1].
C24_ConfidenceValidated ==
  /\ (op = "national-average" /\ aiMatch # <<>> /\ ~InRange(aiMatch[1].confidence)) =>
       pc \notin {"lookup", "save_ai"} /\ matchedPrice = <<>>
  /\ (HandlerDone /\ response[1].confidence # NullNum) => InRange(response[1].confidence)
  /\ \A q \in DOMAIN price_cache :
       price_cache[q].confidence # NullNum => InRange(price_cache[q].confidence)


\* C25: every entry of the shopping list has a canonical_key that is not
\* empty: without a resolved key it is the trimmed userText, and a blank
\* userText adds no entry.
C25_CanonicalKeyNeverEmpty ==
  fn.name = "useShoppingList" =>
    \A i \in DOMAIN fn.items :
      /\ fn.items[i].canonical_key \notin {NULL, <<>>}
      /\ fn.items[i].userText = Trim(fn.items[i].userText)
      /\ fn.items[i].userText # <<>>
      /\ fn.items[i].resolveSource \in {"rpc_error", "fallback"} =>
           fn.items[i].canonical_key = fn.items[i].userText

C25_Witness ==
  /\ fn.name = "useShoppingList"
  /\ fn.adds = MaxAdds
  /\ Len(fn.items) = 1
  /\ fn.items[1].resolveSource = "rpc_error"
  /\ fn.items[1].canonical_key = <<"h", "l", "b">>

\* C26: the resolveSource of every entry of the shopping list is one of
\* exact, cache, partial, words, ai, webscrape, fallback.
C26_SourceIsATier ==
  fn.name = "useShoppingList" =>
    \A i \in DOMAIN fn.items :
      fn.items[i].resolveSource \in
        {"exact", "cache", "partial", "words", "ai", "webscrape", "fallback"}


\* the chain_prices rows of a canonical key
ChainRows(key) == {c \in DOMAIN chain_prices : c[1] = key}

RECURSIVE SumPrices(_)
SumPrices(rows) ==
  IF rows = {} THEN 0
  ELSE LET c == CHOOSE x \in rows : TRUE IN chain_prices[c] + SumPrices(rows \ {c})

\* C27: for every canonical key in price_lookup, avg_price_ils is the mean of
\* the price_ils of the chain_prices rows of that key and sample_count is the
\* number of those rows.
C27_AverageOfChainRows ==
  \A k \in DOMAIN price_lookup :
    /\ price_lookup[k].sample_count = Cardinality(ChainRows(k))
    /\ price_lookup[k].avg_price_ils * Cardinality(ChainRows(k)) = SumPrices(ChainRows(k))


\* both requests have been answered
BothDone == fn.name = "race" /\ pc = "done" /\ fn.other.pc = "done"

\* the columns a request put under the normalized query: what it matched,
\* what the web tier found when its key is the normalized query, the negative
\* after the last tier, nothing when it was answered from the cache or for
\* want of keys
Written(p) ==
  LET src == p.response[1].source IN
  IF src = "direct"
  THEN <<[canonical_key |-> p.directMatch[1].canonical_key,
          avg_price_ils |-> p.directMatch[1].avg_price_ils,
          confidence |-> 100, sample_count |-> p.directMatch[1].sample_count]>>
  ELSE IF src = "ai"
  THEN <<[canonical_key |-> p.matchedPrice[1].canonical_key,
          avg_price_ils |-> p.matchedPrice[1].avg_price_ils,
          confidence |-> p.aiMatch[1].confidence,
          sample_count |-> p.matchedPrice[1].sample_count]>>
  ELSE IF src = "web" /\ ToLower(Trim(p.query)) = p.normalizedQuery
  THEN <<[canonical_key |-> p.smartData.canonicalName, avg_price_ils |-> p.smartData.avgPrice,
          confidence |-> (IF p.smartData.confidence = Undefined THEN NullNum
                          ELSE p.smartData.confidence),
          sample_count |-> 1]>>
  ELSE IF src = "none" /\ Len(p.calls) = Len(TierOrder)
  THEN <<[canonical_key |-> NULL, avg_price_ils |-> NullNum,
          confidence |-> (IF p.aiMatch = <<>> THEN 0 ELSE p.aiMatch[1].confidence),
          sample_count |-> NullNum]>>
  ELSE <<>>

\* the columns of the payload in a price_cache row
Payload(row) ==
  [canonical_key |-> row.canonical_key, avg_price_ils |-> row.avg_price_ils,
   confidence |-> row.confidence, sample_count |-> row.sample_count]

\* both requests were answered with a result object
BothAnswered ==
  /\ response # <<>> /\ response[1].status = 200
  /\ fn.other.response # <<>> /\ fn.other.response[1].status = 200

\* C28: when two resolves of the same uncached query have run at once, both
\* have a result, price_cache holds the entry for the normalized query, and
\* its contents are what one of the two wrote.
C28_RaceLeavesOneEntry ==
  BothDone =>
    /\ BothAnswered
    /\ normalizedQuery \in DOMAIN price_cache
    /\ <<Payload(price_cache[normalizedQuery])>> \in {Written(Self), Written(fn.other)}


\* the failed upserts and updates of a resolution
WriteFaults == {"cache_write"} \cup WebWriteFailures

\* the response of a resolution whose writes all succeeded, from what its
\* tiers found
AnswerOf ==
  IF directMatch # <<>>
  THEN Resp(directMatch[1].canonical_key, directMatch[1].avg_price_ils, 100, FALSE, "direct")
  ELSE IF matchedPrice # <<>>
  THEN Resp(matchedPrice[1].canonical_key, matchedPrice[1].avg_price_ils,
            aiMatch[1].confidence, FALSE, "ai")
  ELSE IF priceData # <<>>
  THEN Resp(canonicalName, priceData[1].avgPrice, WebConfidence(priceData[1]), FALSE, "web")
  ELSE NotFound

\* C29: a resolution with a failed write to price_cache, price_lookup or
\* chain_prices is not aborted: its response carries the key, confidence and
\* price it carries when the write succeeds.
C29_WriteFailureKeepsAnswer ==
  /\ (HandlerDone /\ faults \cap WriteFaults # {}) => response = AnswerOf
  /\ (HandlerDone /\ faults = {} /\ calls # <<>> /\ ~response[1].cached
        /\ (Len(calls) = Len(TierOrder) \/ calls[Len(calls)].hit)) => response = AnswerOf

C29_Witness ==
  /\ HandlerDone
  /\ faults \cap WebWriteFailures # {}
  /\ response[1].source = "web"
  /\ response[1].avgPriceIls = 9


\* C30: a key returned by the recheck, the exact lookup, the scan or the
\* semantic tier is a key of price_lookup; a key of the language model that
\* is not in price_lookup is neither returned nor stored in price_cache
\* (every key stored in price_cache is a key of price_lookup).
C30_ReturnedKeyIsInLookup ==
  /\ (HandlerDone /\ response[1].source \in {"direct", "ai"}) =>
       /\ response[1].canonicalKey # NULL
       /\ response[1].canonicalKey \in DOMAIN price_lookup
  /\ (op = "national-average" /\ matchedPrice # <<>>) =>
       matchedPrice[1].canonical_key \in DOMAIN price_lookup
  /\ (HandlerDone /\ aiMatch # <<>> /\ aiMatch[1].canonicalKey \notin DOMAIN price_lookup) =>
       response[1].canonicalKey # aiMatch[1].canonicalKey
  /\ \A q \in DOMAIN price_cache :
       price_cache[q].canonical_key \in DOMAIN price_lookup \cup {NULL}

C30_Witness ==
  /\ HandlerDone
  /\ aiMatch # <<>> /\ aiMatch[1].confidence >= AI_FLOOR
  /\ aiMatch[1].canonicalKey \notin DOMAIN price_lookup
  /\ response[1].canonicalKey = NULL
  /\ calls[Len(calls)].tier = "semantic"

\* the candidates contained in the query and not equal to it, and the
\* candidates matched by the word rule alone
ContainedIn == {i \in DOMAIN fn.allItems :
                  /\ includes(fn.normalized, normalizeText(fn.allItems[i]))
                  /\ ~includes(normalizeText(fn.allItems[i]), fn.normalized)}
WordOnly == {i \in DOMAIN fn.allItems :
               /\ ~includes(fn.normalized, normalizeText(fn.allItems[i]))
               /\ ~includes(normalizeText(fn.allItems[i]), fn.normalized)
               /\ ScorePositive(fn.scores[i])}

\* C31 as stated: every candidate that contains the query scores strictly
\* higher than every candidate contained in the query, and every candidate
\* of either containment kind scores strictly higher than every candidate
\* matched by word overlap only, for keys of every length >= 1.
C31_TiersStrictlyOrdered ==
  Scored =>
    /\ \A i \in Containing : \A j \in ContainedIn : ScoreGreater(fn.scores[i], fn.scores[j])
    /\ \A i \in Containing \cup ContainedIn : \A w \in WordOnly :
         ScoreGreater(fn.scores[i], fn.scores[w])

\* C31, amended: a candidate that contains the query scores strictly higher
\* than a candidate of two or more characters contained in the query; a
\* one-character candidate contained in the query scores 120, strictly
\* higher than every candidate that contains the query (such a candidate
\* has three or more characters and scores at most 100 + 50/3); every
\* candidate of either containment kind scores strictly higher than every
\* candidate matched by word overlap only.
C31_TiersOrderedButOneCharacter ==
  Scored =>
    /\ \A i \in Containing : \A j \in ContainedIn :
         /\ NormLen(j) >= 2 => ScoreGreater(fn.scores[i], fn.scores[j])
         /\ NormLen(j) = 1 => ScoreGreater(fn.scores[j], fn.scores[i])
    /\ \A i \in Containing \cup ContainedIn : \A w \in WordOnly :
         ScoreGreater(fn.scores[i], fn.scores[w])

C31_Witness ==
  /\ Scored
  /\ \E i \in Containing : \E j \in ContainedIn : \E w \in WordOnly :
       /\ NormLen(j) >= 2
       /\ ScoreGreater(fn.scores[i], fn.scores[j])
       /\ ScoreGreater(fn.scores[j], fn.scores[w])

\* C32: a query that passes validateQuery and whose normalized form is empty
\* is never resolved by the deterministic tiers: no response and no
\* price_cache entry gives it a canonical key with confidence 1.0.
C32_EmptyQueryNotResolved ==
  (fn.name = "request" /\ validateQuery(fn.query) # NULL /\ normalizeText(fn.query) = <<>>) =>
    /\ HandlerDone => ~(response[1].canonicalKey # NULL /\ response[1].confidence = 100)
    /\ <<>> \in DOMAIN price_cache =>
         ~(price_cache[<<>>].canonical_key # NULL /\ price_cache[<<>>].confidence = 100)

\* the entry f of the list after a step is the entry of the row of e, an
\* entry of the list before it: it has e's id, or the insert response has put
\* the id of the row in the place of e's temporary id
SameRow(e, f) ==
  \/ f.id = e.id
  \/ /\ fn.pending # <<>> /\ fn'.pending = <<>>
     /\ e.id = fn.pending[1].tempId
     /\ f.id = fn.pending[1].insertedData

\* C33: an entry that addItem made keeps its canonical_key through every
\* later step: the replacement of the temporary id, a realtime INSERT or
\* UPDATE event for the row, and the load of the list from the database.
C33_ResolvedKeyKept ==
  [][fn.name = "useShoppingList" =>
       \A i \in DOMAIN fn.items : \A j \in DOMAIN fn'.items :
         (fn.items[i].resolveSource \notin {"prior", "realtime"}
            /\ SameRow(fn.items[i], fn'.items[j])) =>
           fn'.items[j].canonical_key = fn.items[i].canonical_key]_vars

\* C34: whatever the order of the realtime INSERT event and the insert
\* response of an addItem call, the list never holds two entries with the
\* same id, and once the call is over no entry has a temporary id.
C34_OneEntryPerRow ==
  fn.name = "useShoppingList" =>
    /\ \A i, j \in DOMAIN fn.items : fn.items[i].id = fn.items[j].id => i = j
    /\ fn.pending = <<>> => \A i \in DOMAIN fn.items : fn.items[i].id[1] # "temp"

\* the calls of fetchPrice whose request is in flight
InFlight == {c \in DOMAIN fn.calls : fn.calls[c].at = "fetch"}

\* the entry addItem made for call c
ItemOf(c) ==
  fn.items[CHOOSE i \in DOMAIN fn.items : fn.items[i].id \in {fn.calls[c].tempId, <<"row", c>>}]

\* C35: at most one request per normalized key is in flight, the pending set
\* holds exactly the keys of the requests in flight, and when no request is
\* in flight every entry whose key has a price in the local cache has that
\* price.
C35_OneFetchAndPriceSet ==
  fn.name = "fetchPrice" =>
    /\ \A c, d \in InFlight :
         normalizeQuery(fn.calls[c].canonicalKey) = normalizeQuery(fn.calls[d].canonicalKey)
           => c = d
    /\ fn.pending = {normalizeQuery(fn.calls[c].canonicalKey) : c \in InFlight}
    /\ InFlight = {} =>
         \A c \in DOMAIN fn.calls :
           LET normalized == normalizeQuery(fn.calls[c].canonicalKey) IN
             (normalized \in DOMAIN fn.priceCache /\ fn.priceCache[normalized] # NullNum) =>
               ItemOf(c).priceEstimateIls = fn.priceCache[normalized]

\* the outcomes the specification gives resolve_query for the text q: the
\* first that applies of exact, cache, partial, words and fallback
ClaimedResolve(q) ==
  LET nq == rpcNormalize(q)
      words == Words(nq)
      exact == {k \in DOMAIN price_lookup : ToLower(k) = nq}
      rows == {x \in DOMAIN price_cache :
                 ToLower(x) = nq /\ price_cache[x].canonical_key # NULL}
      containing == {k \in DOMAIN price_lookup : includes(ToLower(k), nq)}
      allWords == {k \in DOMAIN price_lookup :
                     \A i \in DOMAIN words : includes(ToLower(k), words[i])}
  IN  IF exact # {} THEN {RpcResp(k, 100, "exact") : k \in exact}
      ELSE IF rows # {} THEN {RpcResp(price_cache[x].canonical_key, 95, "cache") : x \in rows}
      ELSE IF containing # {} THEN {RpcResp(k, 80, "partial") : k \in Shortest(containing)}
      ELSE IF Len(words) > 0 /\ allWords # {}
      THEN {RpcResp(k, 60, "words") : k \in Shortest(allWords)}
      ELSE {RpcResp(NULL, 0, "fallback")}

RpcDone == op = "resolve_query" /\ pc = "done"

\* C36: resolve_query returns the first outcome that applies, in this order:
\* a key equal to the query but for case (1.0, exact), a cached key of the
\* query (0.95, cache), the shortest key that contains the query (0.8,
\* partial), the shortest key that contains every word of the query (0.6,
\* words), else null with confidence 0 and source fallback.
C36_FirstApplicableOutcome ==
  RpcDone => response \in ClaimedResolve(query)

\* the unbought entries of the list that have a price at the chain
PricedAt(chain) ==
  {i \in DOMAIN fn.items :
     ~fn.items[i].isBought /\ <<Trim(fn.items[i].canonical_key), chain>> \in DOMAIN chain_prices}

\* the sum of price * quantity over the entries
RECURSIVE SumAt(_, _)
SumAt(entries, chain) ==
  IF entries = {} THEN 0
  ELSE LET i == CHOOSE x \in entries : TRUE
       IN  chain_prices[<<Trim(fn.items[i].canonical_key), chain>>] * fn.items[i].quantity
           + SumAt(entries \ {i}, chain)

AllChains == {e[2] : e \in DOMAIN chain_prices}

\* C37: calculateChainTotals, when its read succeeds, returns one record for
\* every chain that has a price for an unbought entry, with total the sum of
\* price * quantity over the unbought entries priced at the chain and
\* itemsMatched their number, sorted by total ascending; bought entries add
\* nothing.
C37_ChainTotals ==
  (fn.name = "calculateChainTotals" /\ fn.at = "returned" /\ ~fn.failed) =>
    /\ \A c \in AllChains :
         PricedAt(c) # {} <=> \E t \in DOMAIN fn.totals : fn.totals[t].chainName = c
    /\ \A t, u \in DOMAIN fn.totals : fn.totals[t].chainName = fn.totals[u].chainName => t = u
    /\ \A t \in DOMAIN fn.totals :
         /\ fn.totals[t].total = SumAt(PricedAt(fn.totals[t].chainName), fn.totals[t].chainName)
         /\ fn.totals[t].itemsMatched = Cardinality(PricedAt(fn.totals[t].chainName))
    /\ \A t, u \in DOMAIN fn.totals : t < u => fn.totals[t].total <= fn.totals[u].total

C37_Witness ==
  /\ fn.name = "calculateChainTotals" /\ fn.at = "returned" /\ ~fn.failed
  /\ Len(fn.totals) = 2
  /\ fn.totals[1].total < fn.totals[2].total
  /\ fn.totals[1].itemsMatched = 1
  /\ \E i, j \in DOMAIN fn.items :
       /\ fn.items[i].isBought /\ <<Trim(fn.items[i].canonical_key), "rami">> \in DOMAIN chain_prices
       /\ ~fn.items[j].isBought /\ fn.items[j].quantity = 2

\* ------------------------------------------------------------------- C38
\* the values of a sequence
Values(seq) == {seq[i] : i \in DOMAIN seq}

\* the actions that left the queue
Removed == (1..Len(fn.table)) \ fn.queue

\* An action that failed in the last run is still in the queue.
FailedStay ==
  \A r \in DOMAIN fn.runs : r = Len(fn.runs) => fn.runs[r].failed \subseteq fn.queue

\* A run goes through what it read by ascending timestamp, past the failures,
\* to the last action.
InTimestampOrder ==
  \A r \in DOMAIN fn.runs :
    LET run == fn.runs[r]
    IN  /\ \A i, j \in DOMAIN run.pendingActions : i < j => run.pendingActions[i] < run.pendingActions[j]
        /\ Len(run.tried) <= Len(run.pendingActions)
        /\ run.tried = SubSeq(run.pendingActions, 1, Len(run.tried))
        /\ run.at \in {"finish", "completed"} => run.tried = run.pendingActions

\* A later run that read the queue has every action an earlier run left there.
Retried ==
  \A r, s \in DOMAIN fn.runs :
    r < s /\ fn.runs[s].pendingActions # <<>>
      => (fn.runs[r].failed \cap fn.queue) \subseteq Values(fn.runs[s].pendingActions)

\* C38 as stated: an action leaves the pending queue only after it was applied
\* to the remote store, an action that failed stays, the later actions are
\* processed in timestamp order, and a later sync retries what is left.
C38_RemovedOnlyAfterApplied ==
  fn.name = "useOfflineSync" =>
    /\ Removed \subseteq fn.remote
    /\ FailedStay
    /\ InTimestampOrder
    /\ Retried

\* C38 amended: an action on shopping_items leaves the pending queue only
\* after it was applied to the remote store (an action on another table leaves
\* it without being applied), an action that failed stays, the later actions
\* are processed in timestamp order, and a later sync retries what is left.
C38_ShoppingItemsRemovedOnlyAfterApplied ==
  fn.name = "useOfflineSync" =>
    /\ \A id \in Removed : fn.table[id] = "shopping_items" => id \in fn.remote
    /\ FailedStay
    /\ InTimestampOrder
    /\ Retried

\* the first run failed on the first action and applied the second, the
\* second run applied the first
C38_Witness ==
  /\ fn.name = "useOfflineSync"
  /\ fn.table = <<"shopping_items", "shopping_items">>
  /\ Len(fn.runs) = 2
  /\ fn.runs[1].at = "completed" /\ fn.runs[1].tried = <<1, 2>> /\ fn.runs[1].failed = {1}
  /\ fn.runs[2].at = "completed" /\ fn.runs[2].tried = <<1>> /\ fn.runs[2].failed = {}
  /\ fn.queue = {} /\ fn.remote = {1, 2}

\* ------------------------------------------------------------------- C39
\* the runs of syncToCloud that have not returned
ActiveRuns == {r \in DOMAIN fn.runs : fn.runs[r].at \notin Exits}

\* C39: at most one run of syncToCloud is going through the pending queue at
\* any time, and the in-progress flag is false whenever no run is active.
C39_OneRunAtATime ==
  fn.name = "useOfflineSync" =>
    /\ Cardinality(ActiveRuns) <= 1
    /\ ActiveRuns = {} => ~fn.syncInProgress

\* a call was turned away by the flag while a run was active, one run has left
\* by the exception and one by the end of the loop
C39_Witness ==
  /\ fn.name = "useOfflineSync"
  /\ "busy" \in Values(fn.calls)
  /\ Len(fn.runs) = 2
  /\ fn.runs[1].at = "exception"
  /\ fn.runs[2].at = "completed"
  /\ ~fn.syncInProgress
====
